---- MODULE Spec2Model ----
\* Verification model of the competitor search service
\* (competitors_searcher/pipeline/retrieval.py and its collaborators).
\*
\* Texts are sequences of one-character strings, so that str.strip(), the
\* '#'-split of document ids and the list parser are computed, not assumed.
\* Times are seconds on one clock: datetime.now() and the TTLCache timer.
EXTENDS Integers, Sequences, FiniteSets, TLC

VARIABLES
    now,            \* wall clock, seconds
    ndev,           \* how many inputs and answers so far were not the base ones
    meta_doc,       \* the '__meta__#latest' document of the Vector Index
    db,             \* which catalog the backing store currently returns
    nbuilds,        \* index builds / catalog rewrites so far
    meta_cache,     \* _meta_cache  (TTLCache, ttl 60)
    df_cache,       \* _df_cache    (TTLCache, ttl 600)
    search_cache,   \* _search_cache (TTLCache, ttl 7200)
    dv_result_cache,\* _dv_result_cache (plain dict)
    ncalls,         \* calls of search_competitors started so far
    pc,             \* position of the call in flight
    req,            \* its arguments
    loc,            \* its local variables
    calls,          \* backends it has touched
    resp,           \* what the last call returned or raised
    hist            \* the calls that have returned, oldest first

vars == <<now, ndev, meta_doc, db, nbuilds, meta_cache, df_cache, search_cache,
          dv_result_cache, ncalls, pc, req, loc, calls, resp, hist>>

----------------------------------------------------------------------------
\* Bounds of the model

MaxCalls == 2
MaxHits == 2
MaxDeviations == 2
MaxFuseHits == 4
MaxAsmHits == 3
MaxMemoCalls == 3
MaxBuilds == 2
MaxTasks == 2
MaxReads == 1

----------------------------------------------------------------------------
\* Program constants

SEARCH_TTL == 7200
DF_TTL == 600
META_TTL == 60
TOP_K_DASHVECTOR_PER_FIELD == 80
RRF_K == 60
MAX_CANDIDATES_FOR_RERANK == 100

TEXT_FIELDS == <<"labels", "features", "summary_coverage", "summary_liability",
                 "summary_exclusions", "summary_provisions", "summary_services">>

LIST_FIELDS == {"labels", "features"}

----------------------------------------------------------------------------
\* Texts

SP == " "

RECURSIVE LStrip(_)
LStrip(s) == IF s # <<>> /\ Head(s) = SP THEN LStrip(Tail(s)) ELSE s

RECURSIVE RStrip(_)
RStrip(s) == IF s # <<>> /\ s[Len(s)] = SP THEN RStrip(SubSeq(s, 1, Len(s) - 1)) ELSE s

\* str.strip()
Strip(s) == RStrip(LStrip(s))

\* Python's None where a text is expected (never equal to a text of characters)
None == <<"<None>">>

RECURSIVE SeqToSet(_)
SeqToSet(s) == IF s = <<>> THEN {} ELSE {Head(s)} \cup SeqToSet(Tail(s))

RECURSIVE SelectSeq2(_, _)
SelectSeq2(s, keep) ==
    IF s = <<>> THEN <<>>
    ELSE (IF Head(s) \in keep THEN <<Head(s)>> ELSE <<>>) \o SelectSeq2(Tail(s), keep)

Take(s, n) == SubSeq(s, 1, IF n < Len(s) THEN n ELSE Len(s))

----------------------------------------------------------------------------
\* Raw values of a query dict: a missing key, None, a str, or an object that
\* str() can print but json.dumps cannot encode (bytes, a Decimal, a set).

Absent == [k |-> "absent", s |-> <<>>]
NoneVal == [k |-> "none", s |-> <<>>]
StrVal(t) == [k |-> "str", s |-> t]
ObjVal(t) == [k |-> "obj", s |-> t]

REQUIRED_KEYS == <<"product_name", "product_track", "product_info">>

\* str(x).strip() of a raw value that is present and not None
StrOf(v) == v.s

\* _norm_str_list
RECURSIVE NormStrList(_)
NormStrList(items) ==
    IF items = <<>> THEN <<>>
    ELSE (IF Strip(Head(items)) # <<>> THEN <<Strip(Head(items))>> ELSE <<>>)
         \o NormStrList(Tail(items))

\* A validation that forgets the trim: a value of spaces passes
RECURSIVE ValidationFailureNoTrim(_, _)
ValidationFailureNoTrim(query, i) ==
    IF i > Len(REQUIRED_KEYS) THEN <<>>
    ELSE LET k == REQUIRED_KEYS[i]
             v == query[k]
         IN  IF v.k = "absent" THEN <<"query_missing_required_field", k>>
             ELSE IF v.k = "none" \/ StrOf(v) = <<>>
                  THEN <<"query_field_must_not_be_empty", k>>
                  ELSE ValidationFailureNoTrim(query, i + 1)

\* The first required key that fails, as the message of QueryValidationError;
\* <<>> when every required key passes.
RECURSIVE ValidationFailure(_, _)
ValidationFailure(query, i) ==
    IF i > Len(REQUIRED_KEYS) THEN <<>>
    ELSE LET k == REQUIRED_KEYS[i]
             v == query[k]
         IN  IF v.k = "absent" THEN <<"query_missing_required_field", k>>
             ELSE IF v.k = "none" \/ Strip(StrOf(v)) = <<>>
                  THEN <<"query_field_must_not_be_empty", k>>
                  ELSE ValidationFailure(query, i + 1)

\* query.get("product_id") or ""  ->  str(...).strip() or None
NormProductId(v) ==
    LET raw == IF v.k \in {"absent", "none"} THEN <<>> ELSE StrOf(v)
    IN  IF Strip(raw) = <<>> THEN None ELSE Strip(raw)

\* _validate_and_normalize_query, for a query that passes
NormalizeQuery(query) ==
    [product_id |-> NormProductId(query.product_id),
     product_name |-> Strip(StrOf(query.product_name)),
     product_track |-> Strip(StrOf(query.product_track)),
     product_info |-> Strip(StrOf(query.product_info)),
     selected_company |-> NormStrList(query.selected_company),
     selected_channel |-> NormStrList(query.selected_channel)]

----------------------------------------------------------------------------
\* Response envelopes

\* A failure cause passed on as given
FailCauseAsGiven(msg) == msg

\* fail_cause or "unknown_error"
FailCause(msg) == IF msg = <<>> \/ msg = <<"">> THEN <<"unknown_error">> ELSE msg

WrapResponseFail(detail, biz_dt, fail_cause) ==
    [status |-> "FAIL",
     failCause |-> FailCause(fail_cause),
     content |-> [product_list |-> <<>>, biz_dt |-> biz_dt, warnings |-> <<>>],
     detail |-> detail]

WrapResponseSuccess(detail, biz_dt, product_list, warnings) ==
    [status |-> "SUCCESS",
     failCause |-> <<>>,
     content |-> [product_list |-> product_list, biz_dt |-> biz_dt, warnings |-> warnings],
     detail |-> detail]

----------------------------------------------------------------------------
\* Text normalisation

RECURSIVE Join(_, _)
Join(xs, sep) ==
    IF xs = <<>> THEN <<>>
    ELSE IF Len(xs) = 1 THEN Head(xs)
    ELSE Head(xs) \o sep \o Join(Tail(xs), sep)

\* s.split(c): the pieces of s between the occurrences of character c
RECURSIVE SplitOn(_, _, _)
SplitOn(s, c, cur) ==
    IF s = <<>> THEN <<cur>>
    ELSE IF Head(s) = c THEN <<cur>> \o SplitOn(Tail(s), c, <<>>)
    ELSE SplitOn(Tail(s), c, Append(cur, Head(s)))

IsQuoted(t) ==
    /\ Len(t) >= 2
    /\ t[1] \in {"'", "\""}
    /\ t[Len(t)] = t[1]
    /\ \A i \in 2..(Len(t) - 1) : t[i] \notin {"'", "\"", "\\"}

Unquote(t) == SubSeq(t, 2, Len(t) - 1)

\* The comma-separated string literals of the inside of a list or tuple
\* display: [ok, xs, commas].  A trailing comma is allowed after an item.
LiteralItems(inner) ==
    LET pieces == SplitOn(inner, ",", <<>>)
        n == Len(pieces)
        last_blank == Strip(pieces[n]) = <<>>
        m == IF last_blank THEN n - 1 ELSE n
    IN  IF n = 1 /\ last_blank THEN [ok |-> TRUE, xs |-> <<>>, commas |-> 0]
        ELSE IF m >= 1 /\ \A i \in 1..m : IsQuoted(Strip(pieces[i]))
        THEN [ok |-> TRUE, xs |-> [i \in 1..m |-> Unquote(Strip(pieces[i]))], commas |-> n - 1]
        ELSE [ok |-> FALSE, xs |-> <<>>, commas |-> 0]

\* ast.literal_eval(s) followed by isinstance(obj, (list, tuple)), for texts
\* built from letters, blanks, quotes, commas and brackets: [ok, xs], ok when
\* s is the display of a list or tuple of string literals.
LiteralEvalList(s) ==
    LET n == Len(s)
        bracketed == n >= 2 /\ s[1] = "[" /\ s[n] = "]"
        parened == n >= 2 /\ s[1] = "(" /\ s[n] = ")"
        inner == IF bracketed \/ parened THEN SubSeq(s, 2, n - 1) ELSE s
        items == LiteralItems(inner)
    IN  IF bracketed THEN [ok |-> items.ok, xs |-> items.xs]
        ELSE IF parened
             THEN [ok |-> items.ok /\ (items.xs = <<>> \/ items.commas >= 1), xs |-> items.xs]
             ELSE [ok |-> items.ok /\ items.commas >= 1, xs |-> items.xs]

\* Values of a text column or of a parsed field: NaN/None, a str, a list of str
NaNVal == [k |-> "nan", s |-> <<>>, xs |-> <<>>]
TextVal(t) == [k |-> "str", s |-> t, xs |-> <<>>]
ListVal(l) == [k |-> "list", s |-> <<>>, xs |-> l]

RECURSIVE ReprItems(_)
ReprItems(xs) ==
    IF xs = <<>> THEN <<>>
    ELSE <<"'">> \o Head(xs) \o <<"'">>
         \o (IF Len(xs) > 1 THEN <<",", SP>> ELSE <<>>) \o ReprItems(Tail(xs))

\* str(value)
PyStr(v) == IF v.k = "list" THEN <<"[">> \o ReprItems(v.xs) \o <<"]">> ELSE v.s

parse_list_like(v) ==
    IF v.k = "nan" THEN <<>>
    ELSE LET s == Strip(PyStr(v))
             obj == LiteralEvalList(s)
         IN  IF s = <<>> THEN <<>>
             ELSE IF obj.ok THEN Join(obj.xs, <<SP>>)
             ELSE s

normalize_field_text(field_name, v) ==
    IF field_name \in LIST_FIELDS THEN parse_list_like(v)
    ELSE IF v.k = "nan" THEN <<>>
    ELSE PyStr(v)

\* The separator of the combined text (the ideographic full stop)
FULL_STOP == <<".">>

RECURSIVE CombinedParts(_, _)
CombinedParts(fields_map, i) ==
    IF i > Len(TEXT_FIELDS) THEN <<>>
    ELSE LET val == normalize_field_text(TEXT_FIELDS[i], fields_map[TEXT_FIELDS[i]])
         IN  (IF val # <<>> THEN <<val>> ELSE <<>>) \o CombinedParts(fields_map, i + 1)

build_combined_text_from_fields_map(fields_map) == Join(CombinedParts(fields_map, 1), FULL_STOP)

NormalizedFields(fields_map) ==
    [f \in SeqToSet(TEXT_FIELDS) |-> normalize_field_text(f, fields_map[f])]

----------------------------------------------------------------------------
\* Stable descending sort: sorted(xs, key=..., reverse=True)

\* An unstable sort: i goes before the indices already placed with an equal key
RECURSIVE InsertDescUnstable(_, _, _)
InsertDescUnstable(placed, i, keys) ==
    IF placed = <<>> THEN <<i>>
    ELSE IF keys[Head(placed)] > keys[i]
         THEN <<Head(placed)>> \o InsertDescUnstable(Tail(placed), i, keys)
         ELSE <<i>> \o placed

\* i goes after every index already placed whose key is >= keys[i]
RECURSIVE InsertDesc(_, _, _)
InsertDesc(placed, i, keys) ==
    IF placed = <<>> THEN <<i>>
    ELSE IF keys[Head(placed)] >= keys[i]
         THEN <<Head(placed)>> \o InsertDesc(Tail(placed), i, keys)
         ELSE <<i>> \o placed

RECURSIVE OrderDescFrom(_, _, _)
OrderDescFrom(placed, i, keys) ==
    IF i > Len(keys) THEN placed
    ELSE OrderDescFrom(InsertDesc(placed, i, keys), i + 1, keys)

OrderDesc(keys) == OrderDescFrom(<<>>, 1, keys)

SortedDesc(xs, keys) == LET o == OrderDesc(keys) IN [j \in 1..Len(xs) |-> xs[o[j]]]

----------------------------------------------------------------------------
\* Route search: the hits of one field, as product ids with raw scores

\* did.split("#", 1)[0].strip()
DerivedProductId(did) == Strip(Head(SplitOn(did, "#", <<>>)))

\* The loop of _dashvector_search over the documents the index returned.
\* A document is [id, product_id, score]; product_id is <<>> when the
\* document carries no such field.
RECURSIVE DocsToResults(_)
DocsToResults(ret) ==
    IF ret = <<>> THEN <<>>
    ELSE LET doc == Head(ret)
             p0 == Strip(doc.product_id)
             pid == IF p0 # <<>> THEN p0 ELSE DerivedProductId(doc.id)
         IN  (IF pid = <<>> THEN <<>> ELSE <<[product_id |-> pid, score |-> doc.score]>>)
             \o DocsToResults(Tail(ret))

\* The characters of the model's texts, in code-point order
CharOrder == <<SP, "\"", "#", "'", "(", ")", ",", ".", "[", "]", "a", "b", "c", "d",
               "g", "h", "i", "n", "p", "q", "r", "s", "t", "z", "|">>

CharRank(c) == CHOOSE i \in 1..Len(CharOrder) : CharOrder[i] = c

\* a < b on str
RECURSIVE TextLess(_, _)
TextLess(a, b) ==
    IF b = <<>> THEN FALSE
    ELSE IF a = <<>> THEN TRUE
    ELSE IF Head(a) = Head(b) THEN TextLess(Tail(a), Tail(b))
    ELSE CharRank(Head(a)) < CharRank(Head(b))

RECURSIVE InsertText(_, _)
InsertText(sorted, t) ==
    IF sorted = <<>> THEN <<t>>
    ELSE IF TextLess(t, Head(sorted)) THEN <<t>> \o sorted
    ELSE <<Head(sorted)>> \o InsertText(Tail(sorted), t)

RECURSIVE SortedTexts(_)
SortedTexts(items) ==
    IF items = <<>> THEN <<>>
    ELSE InsertText(SortedTexts(SubSeq(items, 1, Len(items) - 1)), items[Len(items)])

\* _list_cache_key: "|".join(sorted(items))
ListCacheKey(items) == Join(SortedTexts(items), <<"|">>)

\* The key of _dv_result_cache
RouteKey(field, track, query_text, top_k, selected_company, selected_channel) ==
    <<field, track, query_text, top_k, ListCacheKey(selected_company), ListCacheKey(selected_channel)>>

----------------------------------------------------------------------------
\* Rank fusion

RECURSIVE RrfDenFrom(_)
RrfDenFrom(r) == IF r = 0 THEN 1 ELSE (RRF_K + r) * RrfDenFrom(r - 1)

\* Fused scores are kept exact, as multiples of 1 / RRF_DEN
RRF_DEN == RrfDenFrom(IF MaxHits > MaxFuseHits THEN MaxHits ELSE MaxFuseHits)

\* 1.0 / (RRF_K + rank)
RrfTerm(rank) == RRF_DEN \div (RRF_K + rank)

\* Ranks taken in the order the route returned its candidates, without the sort
RankedRouteAsGiven(route_name, cand_list) ==
    [rank \in 1..Len(cand_list) |->
        [product_id |-> cand_list[rank].product_id, route |-> route_name,
         rank |-> rank, score_raw |-> cand_list[rank].score]]

\* One route's candidates with their ranks: sorted(cand_list, reverse=True)
\* and enumerate(..., start=1)
RankedRoute(route_name, cand_list) ==
    LET sorted_cands == SortedDesc(cand_list, [i \in 1..Len(cand_list) |-> cand_list[i].score])
    IN  [rank \in 1..Len(sorted_cands) |->
            [product_id |-> sorted_cands[rank].product_id, route |-> route_name,
             rank |-> rank, score_raw |-> sorted_cands[rank].score]]

\* Every (route, rank, candidate) in the order the two loops visit them
RECURSIVE Occurrences(_)
Occurrences(route_results) ==
    IF route_results = <<>> THEN <<>>
    ELSE RankedRoute(Head(route_results).route, Head(route_results).cands)
         \o Occurrences(Tail(route_results))

IndexOfPid(agg, pid) ==
    IF \E i \in 1..Len(agg) : agg[i].product_id = pid
    THEN CHOOSE i \in 1..Len(agg) : agg[i].product_id = pid
    ELSE 0

\* A fusion that opens a new entry for every occurrence
AccumulateApart(agg, occ) ==
    agg \o [i \in 1..Len(occ) |->
              [product_id |-> occ[i].product_id, score |-> RrfTerm(occ[i].rank),
               routes |-> <<[route |-> occ[i].route, rank |-> occ[i].rank,
                             score_raw |-> occ[i].score_raw]>>]]

\* agg_scores[pid] += term; details[pid].append(...), dict order kept
RECURSIVE Accumulate(_, _)
Accumulate(agg, occ) ==
    IF occ = <<>> THEN agg
    ELSE LET o == Head(occ)
             rec == [route |-> o.route, rank |-> o.rank, score_raw |-> o.score_raw]
             i == IndexOfPid(agg, o.product_id)
             agg2 == IF i = 0
                     THEN Append(agg, [product_id |-> o.product_id,
                                       score |-> RrfTerm(o.rank), routes |-> <<rec>>])
                     ELSE [agg EXCEPT ![i] = [product_id |-> @.product_id,
                                              score |-> @.score + RrfTerm(o.rank),
                                              routes |-> Append(@.routes, rec)]]
         IN  Accumulate(agg2, Tail(occ))

\* _fuse_with_rrf: the fused list, each entry with its score and route detail
FuseWithRrf(route_results) ==
    LET agg == Accumulate(<<>>, Occurrences(route_results))
    IN  SortedDesc(agg, [i \in 1..Len(agg) |-> agg[i].score])

----------------------------------------------------------------------------
\* Candidate assembly (the loop over fused_scores)

RowFieldsMap(row) == row.fields

\* An assembly loop without the self-exclusion of line 456
SkipsOwnNever(effective_pid, pid) == FALSE

SkipsOwn(effective_pid, pid) == effective_pid # None /\ pid = effective_pid

\* An allow-list test that takes the empty list for "allow nothing"
AllowedByMembersOnly(selected, value) == value \in SeqToSet(selected)

AllowedBy(selected, value) == selected = <<>> \/ value \in SeqToSet(selected)

\* A cap that lets one candidate too many through
CapReachedLate(items, limit) == Len(items) > limit

\* len(candidate_items) >= MAX_CANDIDATES_FOR_RERANK
CapReached(items, limit) == Len(items) >= limit

\* The loop of lines 455-489 with the cap at limit
RECURSIVE Assemble(_, _, _, _, _, _, _)
Assemble(limit, fused, df, selected_company, selected_channel, effective_pid, items) ==
    IF fused = <<>> THEN items
    ELSE LET e == Head(fused)
             pid == e.product_id
             rest == Tail(fused)
         IN  IF SkipsOwn(effective_pid, pid)
             THEN Assemble(limit, rest, df, selected_company, selected_channel, effective_pid, items)
             ELSE IF CapReached(items, limit) THEN items
             ELSE IF pid \notin DOMAIN df
             THEN Assemble(limit, rest, df, selected_company, selected_channel, effective_pid, items)
             ELSE LET row == df[pid]
                      company == Strip(row.company)
                      channel == Strip(row.channel)
                      combined_text == build_combined_text_from_fields_map(RowFieldsMap(row))
                  IN  IF \/ ~AllowedBy(selected_company, company)
                         \/ ~AllowedBy(selected_channel, channel)
                         \/ Strip(combined_text) = <<>>
                      THEN Assemble(limit, rest, df, selected_company, selected_channel,
                                    effective_pid, items)
                      ELSE Assemble(limit, rest, df, selected_company, selected_channel,
                                    effective_pid,
                                    Append(items,
                                           [product_id |-> pid, company |-> company,
                                            channel |-> channel,
                                            product_name |-> row.product_name,
                                            product_track |-> row.track,
                                            combined_text |-> combined_text,
                                            fields_map |-> RowFieldsMap(row),
                                            rrf_score |-> e.score, routes |-> e.routes]))

----------------------------------------------------------------------------
\* Rerank: threshold, sort, truncation

\* index_to_score.get(idx): the last score the service listed for idx, as a
\* sequence of at most one score
RECURSIVE IndexToScore(_, _)
IndexToScore(rerank_res, idx) ==
    IF rerank_res = <<>> THEN <<>>
    ELSE LET r == rerank_res[Len(rerank_res)]
         IN  IF r.index = idx THEN <<r.score>>
             ELSE IndexToScore(SubSeq(rerank_res, 1, Len(rerank_res) - 1), idx)

\* The comparison of line 505 turned around
PassesThresholdInverted(score, rerank_threshold) == ~(score > rerank_threshold)

PassesThreshold(score, rerank_threshold) == ~(score < rerank_threshold)

FinalItem(item, score) ==
    [product_id |-> item.product_id, company |-> item.company, channel |-> item.channel,
     product_name |-> item.product_name, product_track |-> item.product_track,
     rerank_score |-> score, rrf_score |-> item.rrf_score, routes |-> item.routes,
     evidence |-> [combined_text |-> item.combined_text,
                   fields |-> NormalizedFields(item.fields_map)]]

\* The loop that keeps the candidates the service scored at or above the threshold
RECURSIVE Survivors(_, _, _, _)
Survivors(candidate_items, rerank_res, rerank_threshold, idx) ==
    IF idx >= Len(candidate_items) THEN <<>>
    ELSE LET score == IndexToScore(rerank_res, idx)
         IN  (IF score = <<>> \/ ~PassesThreshold(score[1], rerank_threshold) THEN <<>>
              ELSE <<FinalItem(candidate_items[idx + 1], score[1])>>)
             \o Survivors(candidate_items, rerank_res, rerank_threshold, idx + 1)

\* final_items.sort(key=rerank_score, reverse=True)
SortFinal(final_items) ==
    SortedDesc(final_items, [i \in 1..Len(final_items) |-> final_items[i].rerank_score])

\* A slice that is one too long
TruncateOneMore(final_items, max_results) ==
    IF max_results # 0 /\ max_results > 0 THEN Take(final_items, max_results + 1)
    ELSE final_items

\* if max_results and max_results > 0: final_items = final_items[:max_results]
Truncate(final_items, max_results) ==
    IF max_results # 0 /\ max_results > 0 THEN Take(final_items, max_results) ELSE final_items

ProductIds(items) == [i \in 1..Len(items) |-> items[i].product_id]

----------------------------------------------------------------------------
\* The catalog (the rows _load_dataframe returns, indexed by product_id)

P1 == <<"p">>
P2 == <<"q">>
P3 == <<"r">>
P4 == <<"s">>
PZ == <<"z">>

EmptyFields == [f \in SeqToSet(TEXT_FIELDS) |-> TextVal(<<>>)]

Row(company, channel, fields) ==
    [company |-> company, channel |-> channel, product_name |-> <<"n">>,
     track |-> <<"t">>, fields |-> fields]

Row1 ==
    Row(<<"c">>, <<"g">>,
        [EmptyFields EXCEPT !["labels"] = TextVal(<<"[", "'", "a", "'", "]">>),
                            !["features"] = NaNVal,
                            !["summary_coverage"] = TextVal(<<SP, "b">>)])

Row2 == Row(<<"c", SP>>, <<"h">>, [EmptyFields EXCEPT !["labels"] = TextVal(<<"a", ",", "b">>)])

Row3 == Row(<<"d">>, <<"g">>, [EmptyFields EXCEPT !["summary_coverage"] = TextVal(<<"b">>)])

\* a product with nothing to rerank against
Row4 == Row(<<"d">>, <<"h">>, [EmptyFields EXCEPT !["summary_services"] = TextVal(<<SP>>)])

\* The table before and after a batch rewrite
Catalogs ==
    <<(P1 :> Row1) @@ (P2 :> Row2) @@ (P3 :> Row3) @@ (P4 :> Row4),
      (P2 :> Row2) @@ (P3 :> Row3) @@ (PZ :> Row3)>>

----------------------------------------------------------------------------
\* What the collaborators may answer

\* generate_results(product_info): a dict of fields (possibly partial)
ParsedChoices ==
    { [f \in SeqToSet(TEXT_FIELDS) |-> IF f \in LIST_FIELDS THEN ListVal(<<>>) ELSE TextVal(<<>>)],
      [EmptyFields EXCEPT !["labels"] = ListVal(<<<<"a">>, <<"b">>>>),
                          !["summary_coverage"] = TextVal(<<"b", SP>>)],
      [EmptyFields EXCEPT !["features"] = ListVal(<<<<"a">>>>)] }

\* str(e) of an exception a collaborator raises
ExcMsgs == { <<"backend_error">>, <<"">> }

Doc(id, product_id, score) == [id |-> id, product_id |-> product_id, score |-> score]

\* collection.query(...): the documents of one route, best first or not
HitChoices ==
    { h \in { <<>>,
              <<Doc(<<"p", "#", "a">>, P1, 2), Doc(<<"q", "#", "a">>, P2, 1)>>,
              <<Doc(<<"q", "#", "a">>, <<>>, 2), Doc(<<"r", "#", "a">>, <<SP, "r">>, 2)>>,
              <<Doc(<<"s", "#", "a">>, P4, 1), Doc(<<"z", "#", "a">>, PZ, 2)>>,
              <<Doc(<<"q", "#", "a">>, P2, 2), Doc(<<"q", "#", "b">>, P2, 1)>>,
              <<Doc(<<"r", "#", "a">>, P3, 1), Doc(<<"q", "#", "a">>, P2, 1),
                Doc(<<"p", "#", "a">>, P1, 2)>> } : Len(h) <= MaxHits }

\* rerank_call(query, docs) for n documents: [index, score] records
RerankChoices(n) ==
    { [i \in 1..n |-> [index |-> i - 1, score |-> 2]],
      [i \in 1..n |-> [index |-> n - i, score |-> 1 + ((n - i) % 2)]],
      <<[index |-> 0, score |-> 1], [index |-> 0, score |-> 2], [index |-> 1, score |-> 1],
        [index |-> n, score |-> 2]>> }

----------------------------------------------------------------------------
\* The arguments of search_competitors

BaseQuery ==
    [product_id |-> Absent, product_name |-> StrVal(<<"n">>),
     product_track |-> StrVal(<<"t">>), product_info |-> StrVal(<<"i">>),
     selected_company |-> <<>>, selected_channel |-> <<>>]

\* selected_company / selected_channel arguments: None or a list; a list is
\* held as a one-element sequence
NoList == <<>>
SomeList(l) == <<l>>

BaseRequest ==
    [query |-> BaseQuery, rerank_threshold |-> 1, max_results |-> 2,
     selected_company |-> NoList, selected_channel |-> NoList]

RawChoices ==
    [product_id |-> {Absent, StrVal(<<SP, "p">>), StrVal(<<"z">>)},
     product_name |-> {Absent, NoneVal, StrVal(<<SP>>), StrVal(<<"n">>), StrVal(<<"n", SP>>),
                       ObjVal(<<"n">>)},
     product_track |-> {Absent, StrVal(<<>>), StrVal(<<"t">>)},
     product_info |-> {NoneVal, StrVal(<<SP, SP>>), StrVal(<<"i">>)}]

Queries ==
    { [product_id |-> a, product_name |-> b, product_track |-> c, product_info |-> d,
       selected_company |-> e, selected_channel |-> <<>>] :
        a \in RawChoices.product_id, b \in RawChoices.product_name,
        c \in RawChoices.product_track, d \in RawChoices.product_info,
        e \in {<<>>, <<<<"d">>>>} }

AllRequests ==
    [query : Queries, rerank_threshold : {1, 2}, max_results : {-1, 0, 1, 2},
     selected_company : {NoList, SomeList(<<>>), SomeList(<<<<"c">>, <<SP>>>>)},
     selected_channel : {NoList, SomeList(<<<<"h">>, <<"g">>>>), SomeList(<<<<"g">>, <<"h">>>>),
                         SomeList(<<<<"g", "|", "h">>>>)}]

\* In how many arguments r differs from the base request
Deviations(r) ==
    Cardinality({k \in {"product_id", "product_name", "product_track", "product_info",
                        "selected_company"} : r.query[k] # BaseQuery[k]})
    + Cardinality({k \in {"rerank_threshold", "max_results", "selected_company",
                          "selected_channel"} : r[k] # BaseRequest[k]})

Requests == { r \in AllRequests : Deviations(r) <= MaxDeviations }

----------------------------------------------------------------------------
\* Caches

\* A TTLCache holds a key until ttl seconds after it was stored
Live(entry, ttl) == now < entry.at + ttl

MetaLive == meta_cache # <<>> /\ Live(meta_cache[1], META_TTL)

DfLive == df_cache # <<>> /\ Live(df_cache[1], DF_TTL)

\* A lookup that never finds the key it stored
SearchHitNever(key) == {}

SearchHit(key) == { e \in search_cache : e.key = key /\ Live(e, SEARCH_TTL) }

\* _search_cache[cache_key] = wrapped
SearchStore(key, wrapped) ==
    { e \in search_cache : e.key # key /\ Live(e, SEARCH_TTL) }
        \cup { [key |-> key, val |-> wrapped, at |-> now] }

MemoHit(key) == { e \in dv_result_cache : e.key = key }

----------------------------------------------------------------------------
\* Freshness: _get_biz_dt_from_dashvector

NoDt == -1

\* What the function returns, the cache it leaves and the backends it touches.
\* read_fails: the collection cannot be reached or the fetch raises.
Freshness(read_fails) ==
    IF MetaLive
    THEN [biz_dt |-> meta_cache[1].val[1], warnings |-> meta_cache[1].val[2],
          cache |-> meta_cache, touched |-> {}]
    ELSE LET r == IF read_fails
                  THEN [biz_dt |-> now, warnings |-> <<"meta_read_failed">>,
                        touched |-> {"index_fetch"}]
                  ELSE IF ~meta_doc.present
                  THEN [biz_dt |-> now, warnings |-> <<"meta_doc_not_found">>,
                        touched |-> {"index_fetch", "embedding", "index_query"}]
                  ELSE IF meta_doc.ingest_dt = NoDt
                  THEN [biz_dt |-> now, warnings |-> <<"meta_missing_ingest_dt">>,
                        touched |-> {"index_fetch"}]
                  ELSE [biz_dt |-> meta_doc.ingest_dt, warnings |-> <<>>,
                        touched |-> {"index_fetch"}]
         IN  [biz_dt |-> r.biz_dt, warnings |-> r.warnings,
              cache |-> <<[val |-> <<r.biz_dt, r.warnings>>, at |-> now]>>,
              touched |-> r.touched]

----------------------------------------------------------------------------
\* search_competitors, up to the response cache

\* json.dumps of query.get(k, "")
KeyVal(v) == IF v.k = "absent" THEN StrVal(<<>>) ELSE v

JsonEncodable(query) ==
    \A k \in {"product_id", "product_name", "product_track", "product_info"} :
        query[k].k # "obj"

EffectiveList(arg, from_query) == IF arg = NoList THEN from_query ELSE NormStrList(arg[1])

\* A cache key that leaves max_results out
CacheKeyWithoutMaxResults(r, selected_company, selected_channel, biz_dt) ==
    [product_id |-> KeyVal(r.query.product_id),
     product_name |-> KeyVal(r.query.product_name),
     product_track |-> KeyVal(r.query.product_track),
     product_info |-> KeyVal(r.query.product_info),
     selected_company |-> selected_company,
     selected_channel |-> selected_channel,
     rerank_threshold |-> r.rerank_threshold,
     max_results |-> 0,
     biz_dt |-> biz_dt]

CacheKey(r, selected_company, selected_channel, biz_dt) ==
    [product_id |-> KeyVal(r.query.product_id),
     product_name |-> KeyVal(r.query.product_name),
     product_track |-> KeyVal(r.query.product_track),
     product_info |-> KeyVal(r.query.product_info),
     selected_company |-> selected_company,
     selected_channel |-> selected_channel,
     rerank_threshold |-> r.rerank_threshold,
     max_results |-> r.max_results,
     biz_dt |-> biz_dt]

NoLoc ==
    [biz_dt |-> NoDt, biz_warnings |-> <<>>, q0 |-> <<>>, selected_company |-> <<>>,
     selected_channel |-> <<>>, cache_key |-> <<>>, effective_pid |-> None,
     parsed_fields |-> <<>>, rerank_query_text |-> <<>>, pending |-> {},
     route_results |-> <<>>, candidate_items |-> <<>>, rerank_res |-> <<>>]

Returned(e) == [kind |-> "returned", env |-> <<e>>, msg |-> <<>>]
Raised(msg) == [kind |-> "raised", env |-> <<>>, msg |-> msg]
NoResp == [kind |-> "none", env |-> <<>>, msg |-> <<>>]

\* One finished call: what was asked, what came back, the biz_dt it resolved,
\* when it ended, when the envelope it returned was computed, and how many
\* index builds had completed
HistEntry(r, out, biz_dt, stored) ==
    [req |-> r, resp |-> out, biz_dt |-> biz_dt, at |-> now, stored |-> stored,
     builds |-> nbuilds]

CanCall == pc \in {"idle", "done"} /\ ncalls < MaxCalls

\* The call ends: it returns an envelope or raises
Finish(r, out, biz_dt, stored) ==
    /\ pc' = "done"
    /\ resp' = out
    /\ hist' = Append(hist, HistEntry(r, out, biz_dt, stored))

\* A validation that runs only after the catalog lookup
CallInvalidAfterLookup(r, read_fails) ==
    LET fr == Freshness(read_fails)
        failure == ValidationFailure(r.query, 1)
    IN  /\ CanCall
        /\ failure # <<>>
        /\ ncalls' = ncalls + 1
        /\ req' = r
        /\ meta_cache' = fr.cache
        /\ calls' = fr.touched \cup {"catalog_load"}
        /\ loc' = [NoLoc EXCEPT !.biz_dt = fr.biz_dt, !.biz_warnings = fr.warnings]
        /\ Finish(r, Returned(WrapResponseFail([query_raw |-> r.query, candidates |-> <<>>],
                                               fr.biz_dt, failure)), fr.biz_dt, now)
        /\ UNCHANGED <<now, meta_doc, db, nbuilds, df_cache, search_cache,
                       dv_result_cache>>

\* lines 362-368: the query fails validation
CallInvalid(r, read_fails) ==
    LET fr == Freshness(read_fails)
        failure == ValidationFailure(r.query, 1)
    IN  /\ CanCall
        /\ failure # <<>>
        /\ ncalls' = ncalls + 1
        /\ req' = r
        /\ meta_cache' = fr.cache
        /\ calls' = fr.touched
        /\ loc' = [NoLoc EXCEPT !.biz_dt = fr.biz_dt, !.biz_warnings = fr.warnings]
        /\ Finish(r, Returned(WrapResponseFail([query_raw |-> r.query, candidates |-> <<>>],
                                               fr.biz_dt, failure)), fr.biz_dt, now)
        /\ UNCHANGED <<now, meta_doc, db, nbuilds, df_cache, search_cache,
                       dv_result_cache>>

\* lines 380-394: json.dumps cannot encode the cache key; nothing catches it
CallKeyRaises(r, read_fails) ==
    LET fr == Freshness(read_fails)
    IN  /\ CanCall
        /\ ValidationFailure(r.query, 1) = <<>>
        /\ ~JsonEncodable(r.query)
        /\ ncalls' = ncalls + 1
        /\ req' = r
        /\ meta_cache' = fr.cache
        /\ calls' = fr.touched
        /\ loc' = [NoLoc EXCEPT !.biz_dt = fr.biz_dt, !.biz_warnings = fr.warnings,
                                !.q0 = NormalizeQuery(r.query)]
        /\ Finish(r, Raised(<<"TypeError: Object is not JSON serializable">>), fr.biz_dt, now)
        /\ UNCHANGED <<now, meta_doc, db, nbuilds, df_cache, search_cache,
                       dv_result_cache>>

\* The locals once the cache key is built
StartLoc(r, fr) ==
    LET q0 == NormalizeQuery(r.query)
        selected_company == EffectiveList(r.selected_company, q0.selected_company)
        selected_channel == EffectiveList(r.selected_channel, q0.selected_channel)
    IN  [NoLoc EXCEPT !.biz_dt = fr.biz_dt, !.biz_warnings = fr.warnings, !.q0 = q0,
                      !.selected_company = selected_company,
                      !.selected_channel = selected_channel,
                      !.cache_key = CacheKey(r, selected_company, selected_channel, fr.biz_dt)]

\* lines 395-396: the response cache holds the key
CallCacheHit(r, read_fails) ==
    LET fr == Freshness(read_fails)
        l == StartLoc(r, fr)
    IN  /\ CanCall
        /\ ValidationFailure(r.query, 1) = <<>>
        /\ JsonEncodable(r.query)
        /\ SearchHit(l.cache_key) # {}
        /\ ncalls' = ncalls + 1
        /\ req' = r
        /\ meta_cache' = fr.cache
        /\ calls' = fr.touched
        /\ loc' = l
        /\ \E e \in SearchHit(l.cache_key) : Finish(r, Returned(e.val), fr.biz_dt, e.at)
        /\ UNCHANGED <<now, meta_doc, db, nbuilds, df_cache, search_cache,
                       dv_result_cache>>

\* the response cache misses: the pipeline starts
CallMiss(r, read_fails) ==
    LET fr == Freshness(read_fails)
        l == StartLoc(r, fr)
    IN  /\ CanCall
        /\ ValidationFailure(r.query, 1) = <<>>
        /\ JsonEncodable(r.query)
        /\ SearchHit(l.cache_key) = {}
        /\ ncalls' = ncalls + 1
        /\ req' = r
        /\ meta_cache' = fr.cache
        /\ calls' = fr.touched
        /\ loc' = l
        /\ pc' = "resolve"
        /\ resp' = NoResp
        /\ UNCHANGED <<now, meta_doc, db, nbuilds, df_cache, search_cache,
                       dv_result_cache, hist>>

----------------------------------------------------------------------------
\* The pipeline (lines 398-539); every exception in it ends in the handler
\* of line 535

QueryDetail ==
    [product_id |-> loc.q0.product_id, product_name |-> loc.q0.product_name,
     product_track |-> loc.q0.product_track, product_info |-> loc.q0.product_info,
     selected_company |-> loc.q0.selected_company,
     selected_channel |-> loc.q0.selected_channel,
     effective_pid |-> loc.effective_pid, parsed_fields |-> loc.parsed_fields,
     rerank_query_text |-> loc.rerank_query_text]

\* An exception handler that answers without storing
PipelineFailsUncached(msg) ==
    LET wrapped == WrapResponseFail([query_raw |-> req.query, candidates |-> <<>>,
                                     error |-> msg], loc.biz_dt, msg)
    IN  /\ search_cache' = search_cache
        /\ Finish(req, Returned(wrapped), loc.biz_dt, now)

\* lines 535-539
PipelineFails(msg) ==
    LET wrapped == WrapResponseFail([query_raw |-> req.query, candidates |-> <<>>,
                                     error |-> msg], loc.biz_dt, msg)
    IN  /\ search_cache' = SearchStore(loc.cache_key, wrapped)
        /\ Finish(req, Returned(wrapped), loc.biz_dt, now)

\* wrap, store in the response cache, return
Respond(detail_query, final_items) ==
    LET wrapped == WrapResponseSuccess([query |-> detail_query, candidates |-> final_items],
                                       loc.biz_dt, ProductIds(final_items), loc.biz_warnings)
    IN  /\ search_cache' = SearchStore(loc.cache_key, wrapped)
        /\ Finish(req, Returned(wrapped), loc.biz_dt, now)

\* _get_df: the cached table, or a fresh load that is then cached
DfRead ==
    IF DfLive THEN [df |-> Catalogs[df_cache[1].val], cache |-> df_cache, touched |-> {}]
    ELSE [df |-> Catalogs[db], cache |-> <<[val |-> db, at |-> now]>>,
          touched |-> {"catalog_load"}]

\* lines 421-432: the routes to dispatch
Dispatch(parsed_fields) ==
    { f \in SeqToSet(TEXT_FIELDS) : Strip(normalize_field_text(f, parsed_fields[f])) # <<>> }

\* A resolution that finds the row and still parses product_info
ResolveFromCatalogReparses ==
    LET d == DfRead
    IN  /\ pc = "resolve"
        /\ loc.q0.product_id # None
        /\ loc.q0.product_id \in DOMAIN d.df
        /\ df_cache' = d.cache
        /\ calls' = calls \cup d.touched \cup {"field_extractor"}
        /\ loc' = [loc EXCEPT !.effective_pid = loc.q0.product_id,
                              !.parsed_fields = EmptyFields,
                              !.rerank_query_text =
                                  build_combined_text_from_fields_map(EmptyFields),
                              !.pending = Dispatch(EmptyFields)]
        /\ pc' = "recall"
        /\ UNCHANGED <<now, meta_doc, db, nbuilds, meta_cache, search_cache,
                       dv_result_cache, ncalls, req, resp, hist>>

\* lines 405-414: the product id is in the catalog
ResolveFromCatalog ==
    LET d == DfRead
        row == d.df[loc.q0.product_id]
    IN  /\ pc = "resolve"
        /\ loc.q0.product_id # None
        /\ loc.q0.product_id \in DOMAIN d.df
        /\ df_cache' = d.cache
        /\ calls' = calls \cup d.touched
        /\ loc' = [loc EXCEPT !.effective_pid = loc.q0.product_id,
                              !.parsed_fields = RowFieldsMap(row),
                              !.rerank_query_text =
                                  build_combined_text_from_fields_map(RowFieldsMap(row)),
                              !.pending = Dispatch(RowFieldsMap(row))]
        /\ pc' = "recall"
        /\ UNCHANGED <<now, meta_doc, db, nbuilds, meta_cache, search_cache,
                       dv_result_cache, ncalls, req, resp, hist>>

\* Whether the lookup of lines 405-411 leaves product_row = None, and the
\* catalog cache after it.  load_fails: _load_dataframe raises.
NoProductRow(load_fails) ==
    \/ loc.q0.product_id = None
    \/ (~DfLive /\ load_fails)
    \/ (~load_fails /\ loc.q0.product_id \notin DOMAIN DfRead.df)

LookupCache(load_fails) ==
    IF loc.q0.product_id = None \/ load_fails THEN df_cache ELSE DfRead.cache

LookupTouched(load_fails) ==
    IF loc.q0.product_id = None THEN {}
    ELSE IF DfLive THEN {}
    ELSE {"catalog_load"}

\* An extractor branch that keeps the query's product id as the own product
ResolveByExtractorKeepsPid(load_fails, parsed) ==
    /\ pc = "resolve"
    /\ NoProductRow(load_fails)
    /\ load_fails => (loc.q0.product_id # None /\ ~DfLive)
    /\ df_cache' = LookupCache(load_fails)
    /\ calls' = calls \cup LookupTouched(load_fails) \cup {"field_extractor"}
    /\ loc' = [loc EXCEPT !.effective_pid = loc.q0.product_id,
                          !.parsed_fields = parsed,
                          !.rerank_query_text = build_combined_text_from_fields_map(parsed),
                          !.pending = Dispatch(parsed)]
    /\ pc' = "recall"
    /\ UNCHANGED <<now, meta_doc, db, nbuilds, meta_cache, search_cache,
                   dv_result_cache, ncalls, req, resp, hist>>

\* lines 415-419: no catalog row, the extractor parses product_info
ResolveByExtractor(load_fails, parsed) ==
    /\ pc = "resolve"
    /\ NoProductRow(load_fails)
    /\ load_fails => (loc.q0.product_id # None /\ ~DfLive)
    /\ df_cache' = LookupCache(load_fails)
    /\ calls' = calls \cup LookupTouched(load_fails) \cup {"field_extractor"}
    /\ loc' = [loc EXCEPT !.effective_pid = None,
                          !.parsed_fields = parsed,
                          !.rerank_query_text = build_combined_text_from_fields_map(parsed),
                          !.pending = Dispatch(parsed)]
    /\ pc' = "recall"
    /\ UNCHANGED <<now, meta_doc, db, nbuilds, meta_cache, search_cache,
                   dv_result_cache, ncalls, req, resp, hist>>

\* line 416 raises
ResolveExtractorRaises(load_fails, msg) ==
    /\ pc = "resolve"
    /\ NoProductRow(load_fails)
    /\ load_fails => (loc.q0.product_id # None /\ ~DfLive)
    /\ df_cache' = LookupCache(load_fails)
    /\ calls' = calls \cup LookupTouched(load_fails) \cup {"field_extractor"}
    /\ PipelineFails(msg)
    /\ UNCHANGED <<now, meta_doc, db, nbuilds, meta_cache, dv_result_cache,
                   ncalls, req, loc>>

----------------------------------------------------------------------------
\* Recall: one route per dispatched field, completing in any order

RouteName(field) == <<field, "_dv_hybrid">>

FieldRouteKey(field) ==
    RouteKey(field, loc.q0.product_track,
             normalize_field_text(field, loc.parsed_fields[field]),
             TOP_K_DASHVECTOR_PER_FIELD, loc.selected_company, loc.selected_channel)

\* The arguments of one route search, kept beside the memoized list
FieldRouteArgs(field) ==
    [field |-> field, track |-> loc.q0.product_track,
     query_text |-> normalize_field_text(field, loc.parsed_fields[field]),
     top_k |-> TOP_K_DASHVECTOR_PER_FIELD,
     selected_company |-> loc.selected_company, selected_channel |-> loc.selected_channel]

\* lines 433-440: the main thread takes a completed future
Collect(field, cand_list) ==
    [loc EXCEPT !.pending = @ \ {field},
                !.route_results = IF cand_list # <<>>
                                  THEN Append(@, [route |-> RouteName(field), cands |-> cand_list])
                                  ELSE @]

\* lines 305-306: the memo holds the key
RouteMemoHit(field) ==
    /\ pc = "recall"
    /\ field \in loc.pending
    /\ MemoHit(FieldRouteKey(field)) # {}
    /\ \E e \in MemoHit(FieldRouteKey(field)) : loc' = Collect(field, e.val)
    /\ UNCHANGED <<now, meta_doc, db, nbuilds, meta_cache, df_cache, search_cache,
                   dv_result_cache, ncalls, pc, req, calls, resp, hist>>

\* lines 307-309: the index answers, the answer is memoized
RouteReturns(field, ret) ==
    LET res == DocsToResults(ret)
    IN  /\ pc = "recall"
        /\ field \in loc.pending
        /\ MemoHit(FieldRouteKey(field)) = {}
        /\ dv_result_cache' = dv_result_cache \cup {[key |-> FieldRouteKey(field), val |-> res,
                                                      args |-> FieldRouteArgs(field)]}
        /\ calls' = calls \cup {"embedding", "sparse_encoder", "index_query"}
        /\ loc' = Collect(field, res)
        /\ UNCHANGED <<now, meta_doc, db, nbuilds, meta_cache, df_cache, search_cache,
                       ncalls, pc, req, resp, hist>>

\* A route's exception that escapes the loop of lines 433-440 and ends the
\* request in the handler of line 535
RouteRaisesAborts(field) ==
    /\ pc = "recall"
    /\ field \in loc.pending
    /\ MemoHit(FieldRouteKey(field)) = {}
    /\ calls' = calls \cup {"embedding", "sparse_encoder", "index_query"}
    /\ PipelineFails(<<"backend_error">>)
    /\ UNCHANGED <<now, meta_doc, db, nbuilds, meta_cache, df_cache,
                   dv_result_cache, ncalls, req, loc>>

\* _dashvector_search raises: lines 437-438 drop the route
RouteRaises(field) ==
    /\ pc = "recall"
    /\ field \in loc.pending
    /\ MemoHit(FieldRouteKey(field)) = {}
    /\ calls' = calls \cup {"embedding", "sparse_encoder", "index_query"}
    /\ loc' = Collect(field, <<>>)
    /\ UNCHANGED <<now, meta_doc, db, nbuilds, meta_cache, df_cache, search_cache,
                   dv_result_cache, ncalls, pc, req, resp, hist>>

----------------------------------------------------------------------------
\* Fusion and assembly, once every route is in

\* An empty recall reported as a failure
RespondNoRoutesAsFailure ==
    /\ pc = "recall"
    /\ loc.pending = {}
    /\ loc.route_results = <<>>
    /\ PipelineFails(<<"no_candidates">>)
    /\ UNCHANGED <<now, meta_doc, db, nbuilds, meta_cache, df_cache,
                   dv_result_cache, ncalls, req, loc, calls>>

\* lines 442-446
RespondNoRoutes ==
    /\ pc = "recall"
    /\ loc.pending = {}
    /\ loc.route_results = <<>>
    /\ Respond(QueryDetail, <<>>)
    /\ UNCHANGED <<now, meta_doc, db, nbuilds, meta_cache, df_cache,
                   dv_result_cache, ncalls, req, loc, calls>>

\* line 451: the catalog has to be loaded again and the load raises
AssembleRaises(msg) ==
    /\ pc = "recall"
    /\ loc.pending = {}
    /\ loc.route_results # <<>>
    /\ ~DfLive
    /\ calls' = calls \cup {"catalog_load"}
    /\ PipelineFails(msg)
    /\ UNCHANGED <<now, meta_doc, db, nbuilds, meta_cache, df_cache,
                   dv_result_cache, ncalls, req, loc>>

CandidateItems ==
    Assemble(MAX_CANDIDATES_FOR_RERANK, FuseWithRrf(loc.route_results), DfRead.df,
             loc.selected_company, loc.selected_channel, loc.effective_pid, <<>>)

\* lines 449-495 with no candidate left
AssembleNone ==
    /\ pc = "recall"
    /\ loc.pending = {}
    /\ loc.route_results # <<>>
    /\ CandidateItems = <<>>
    /\ df_cache' = DfRead.cache
    /\ calls' = calls \cup DfRead.touched
    /\ Respond(QueryDetail, <<>>)
    /\ UNCHANGED <<now, meta_doc, db, nbuilds, meta_cache, dv_result_cache,
                   ncalls, req, loc>>

\* A fusion that starts as soon as one route has brought results
AssembleSomeEarly ==
    /\ pc = "recall"
    /\ loc.route_results # <<>>
    /\ CandidateItems # <<>>
    /\ df_cache' = DfRead.cache
    /\ calls' = calls \cup DfRead.touched
    /\ loc' = [loc EXCEPT !.candidate_items = CandidateItems]
    /\ pc' = "rerank"
    /\ UNCHANGED <<now, meta_doc, db, nbuilds, meta_cache, search_cache,
                   dv_result_cache, ncalls, req, resp, hist>>

\* lines 449-489 with candidates to rerank
AssembleSome ==
    /\ pc = "recall"
    /\ loc.pending = {}
    /\ loc.route_results # <<>>
    /\ CandidateItems # <<>>
    /\ df_cache' = DfRead.cache
    /\ calls' = calls \cup DfRead.touched
    /\ loc' = [loc EXCEPT !.candidate_items = CandidateItems]
    /\ pc' = "rerank"
    /\ UNCHANGED <<now, meta_doc, db, nbuilds, meta_cache, search_cache,
                   dv_result_cache, ncalls, req, resp, hist>>

----------------------------------------------------------------------------
\* Rerank and answer

\* lines 502-526
FinalItems(candidate_items, rerank_res, rerank_threshold, max_results) ==
    Truncate(SortFinal(Survivors(candidate_items, rerank_res, rerank_threshold, 0)),
             max_results)

\* line 499 raises
RerankRaises(msg) ==
    /\ pc = "rerank"
    /\ calls' = calls \cup {"rerank"}
    /\ PipelineFails(msg)
    /\ UNCHANGED <<now, meta_doc, db, nbuilds, meta_cache, df_cache,
                   dv_result_cache, ncalls, req, loc>>

\* lines 498-533
RerankReturns(rerank_res) ==
    /\ pc = "rerank"
    /\ calls' = calls \cup {"rerank"}
    /\ loc' = [loc EXCEPT !.rerank_res = rerank_res]
    /\ Respond(QueryDetail,
               FinalItems(loc.candidate_items, rerank_res, req.rerank_threshold,
                          req.max_results))
    /\ UNCHANGED <<now, meta_doc, db, nbuilds, meta_cache, df_cache,
                   dv_result_cache, ncalls, req>>

----------------------------------------------------------------------------
\* The world around the process

TickSteps == {META_TTL, DF_TTL, SEARCH_TTL}

Tick(d) ==
    /\ now' = now + d
    /\ UNCHANGED <<meta_doc, db, nbuilds, meta_cache, df_cache, search_cache,
                   dv_result_cache, ncalls, pc, req, loc, calls, resp, hist>>

\* build_dashvector_indices.main completes: the latest meta document is
\* upserted with the build's ingest_dt
IndexBuild ==
    /\ meta_doc' = [present |-> TRUE, ingest_dt |-> now]
    /\ nbuilds' = nbuilds + 1
    /\ UNCHANGED <<now, db, meta_cache, df_cache, search_cache, dv_result_cache,
                   ncalls, pc, req, loc, calls, resp, hist>>

\* the parse job replaces the product table
CatalogRewrite ==
    /\ db < Len(Catalogs)
    /\ db' = db + 1
    /\ UNCHANGED <<now, meta_doc, nbuilds, meta_cache, df_cache, search_cache,
                   dv_result_cache, ncalls, pc, req, loc, calls, resp, hist>>

----------------------------------------------------------------------------
\* The base scenario, and the budget of departures from it.  A behaviour
\* takes at most MaxDeviations inputs, answers or events that are not the
\* base ones; which ones is free.

BaseMetaDoc == [present |-> TRUE, ingest_dt |-> 0]

MetaDocs ==
    { [present |-> FALSE, ingest_dt |-> NoDt],
      [present |-> TRUE, ingest_dt |-> NoDt],
      BaseMetaDoc }

BaseParsed ==
    [EmptyFields EXCEPT !["labels"] = ListVal(<<<<"a">>, <<"b">>>>),
                        !["summary_coverage"] = TextVal(<<"b", SP>>)]

BaseHits(field) ==
    IF field \in LIST_FIELDS
    THEN <<Doc(<<"p", "#", "a">>, P1, 2), Doc(<<"q", "#", "a">>, P2, 1)>>
    ELSE <<Doc(<<"q", "#", "a">>, <<>>, 2), Doc(<<"r", "#", "a">>, <<SP, "r">>, 2)>>

BaseRerank(n) == [i \in 1..n |-> [index |-> n - i, score |-> 1 + ((n - i) % 2)]]

Cost(choice, base) == IF choice = base THEN 0 ELSE 1

\* a request seen before in the behaviour costs nothing more
RequestCost(r) ==
    IF \E i \in 1..Len(hist) : hist[i].req = r THEN 0 ELSE Deviations(r)

Spend(cost) ==
    /\ ndev + cost <= MaxDeviations
    /\ ndev' = ndev + cost

Init ==
    /\ now = 0
    /\ meta_doc \in MetaDocs
    /\ ndev = Cost(meta_doc, BaseMetaDoc)
    /\ db = 1
    /\ nbuilds = 0
    /\ meta_cache = <<>>
    /\ df_cache = <<>>
    /\ search_cache = {}
    /\ dv_result_cache = {}
    /\ ncalls = 0
    /\ pc = "idle"
    /\ req = BaseRequest
    /\ loc = NoLoc
    /\ calls = {}
    /\ resp = NoResp
    /\ hist = <<>>

Next ==
    \/ \E r \in Requests, read_fails \in BOOLEAN :
          CallInvalid(r, read_fails) /\ Spend(RequestCost(r) + Cost(read_fails, FALSE))
    \/ \E r \in Requests, read_fails \in BOOLEAN :
          CallKeyRaises(r, read_fails) /\ Spend(RequestCost(r) + Cost(read_fails, FALSE))
    \/ \E r \in Requests, read_fails \in BOOLEAN :
          CallCacheHit(r, read_fails) /\ Spend(RequestCost(r) + Cost(read_fails, FALSE))
    \/ \E r \in Requests, read_fails \in BOOLEAN :
          CallMiss(r, read_fails) /\ Spend(RequestCost(r) + Cost(read_fails, FALSE))
    \/ ResolveFromCatalog /\ Spend(0)
    \/ \E load_fails \in BOOLEAN, parsed \in ParsedChoices :
          /\ ResolveByExtractor(load_fails, parsed)
          /\ Spend(Cost(load_fails, FALSE) + Cost(parsed, BaseParsed))
    \/ \E load_fails \in BOOLEAN, msg \in ExcMsgs :
          ResolveExtractorRaises(load_fails, msg) /\ Spend(Cost(load_fails, FALSE) + 1)
    \/ \E field \in SeqToSet(TEXT_FIELDS) : RouteMemoHit(field) /\ Spend(0)
    \/ \E field \in SeqToSet(TEXT_FIELDS), ret \in HitChoices :
          RouteReturns(field, ret) /\ Spend(Cost(ret, BaseHits(field)))
    \/ \E field \in SeqToSet(TEXT_FIELDS) : RouteRaises(field) /\ Spend(1)
    \/ RespondNoRoutes /\ Spend(0)
    \/ \E msg \in ExcMsgs : AssembleRaises(msg) /\ Spend(1)
    \/ AssembleNone /\ Spend(0)
    \/ AssembleSome /\ Spend(0)
    \/ \E msg \in ExcMsgs : RerankRaises(msg) /\ Spend(1)
    \/ \E rerank_res \in RerankChoices(Len(loc.candidate_items)) :
          /\ RerankReturns(rerank_res)
          /\ Spend(Cost(rerank_res, BaseRerank(Len(loc.candidate_items))))
    \/ \E d \in TickSteps : Tick(d) /\ Spend(1)
    \/ IndexBuild /\ Spend(1)
    \/ CatalogRewrite /\ Spend(1)

Spec == Init /\ [][Next]_vars

----------------------------------------------------------------------------
\* _fuse_with_rrf on its own: one call on any map of route results (a dict, in
\* insertion order) with up to two routes of up to MaxFuseHits candidates each

FuseRoutes == {RouteName("labels"), RouteName("features")}

\* {"product_id": pid, "score": raw score}
FuseCands == { [product_id |-> P1, score |-> 2], [product_id |-> P1, score |-> 1],
               [product_id |-> P2, score |-> 1] }

FuseCandLists == UNION { [1..n -> FuseCands] : n \in 1..MaxFuseHits }

InitFuse ==
    /\ now = 0
    /\ meta_doc = BaseMetaDoc
    /\ ndev = 0
    /\ db = 1
    /\ nbuilds = 0
    /\ meta_cache = <<>>
    /\ df_cache = <<>>
    /\ search_cache = {}
    /\ dv_result_cache = {}
    /\ ncalls = 0
    /\ pc = "fuse"
    /\ req = BaseRequest
    /\ \/ loc = [route_results |-> <<>>, fused_scores |-> <<>>]
       \/ \E r \in FuseRoutes, c \in FuseCandLists :
             loc = [route_results |-> <<[route |-> r, cands |-> c]>>, fused_scores |-> <<>>]
       \/ \E r1 \in FuseRoutes, c1 \in FuseCandLists, c2 \in FuseCandLists :
             \E r2 \in FuseRoutes \ {r1} :
                loc = [route_results |-> <<[route |-> r1, cands |-> c1],
                                          [route |-> r2, cands |-> c2]>>,
                       fused_scores |-> <<>>]
    /\ calls = {}
    /\ resp = NoResp
    /\ hist = <<>>

\* fused_scores, route_details = _fuse_with_rrf(route_results)
FuseCall ==
    /\ pc = "fuse"
    /\ loc' = [loc EXCEPT !.fused_scores = FuseWithRrf(loc.route_results)]
    /\ pc' = "fused"
    /\ UNCHANGED <<now, ndev, meta_doc, db, nbuilds, meta_cache, df_cache, search_cache,
                   dv_result_cache, ncalls, req, calls, resp, hist>>

NextFuse == FuseCall

SpecFuse == InitFuse /\ [][NextFuse]_vars

----------------------------------------------------------------------------
\* The assembly loop on its own: one pass over the fused list of any two
\* routes' results, against either catalog, with the cap at 1, at 2 or at
\* MAX_CANDIDATES_FOR_RERANK

AsmLimits == {1, 2, MAX_CANDIDATES_FOR_RERANK}

AsmCands == { [product_id |-> p, score |-> 1] : p \in {P1, P2, P3, P4, PZ} }

AsmCandLists == UNION { [1..n -> AsmCands] : n \in 1..MaxAsmHits }

AsmOtherLists ==
    { <<>>, <<[product_id |-> P3, score |-> 1]>>,
      <<[product_id |-> PZ, score |-> 2], [product_id |-> P1, score |-> 1]>> }

AsmRouteResults(c1, c2) ==
    <<[route |-> RouteName("labels"), cands |-> c1]>>
    \o (IF c2 = <<>> THEN <<>> ELSE <<[route |-> RouteName("features"), cands |-> c2]>>)

InitAssemble ==
    /\ now = 0
    /\ meta_doc = BaseMetaDoc
    /\ ndev = 0
    /\ db \in 1..Len(Catalogs)
    /\ nbuilds = 0
    /\ meta_cache = <<>>
    /\ df_cache = <<>>
    /\ search_cache = {}
    /\ dv_result_cache = {}
    /\ ncalls = 0
    /\ pc = "assemble"
    /\ req = BaseRequest
    /\ \E limit \in AsmLimits, c1 \in AsmCandLists, c2 \in AsmOtherLists,
          company \in {<<>>, <<<<"c">>>>}, pid \in {None, P2} :
          loc = [limit |-> limit,
                 fused_scores |-> FuseWithRrf(AsmRouteResults(c1, c2)),
                 selected_company |-> company, selected_channel |-> <<>>,
                 effective_pid |-> pid, candidate_items |-> <<>>]
    /\ calls = {}
    /\ resp = NoResp
    /\ hist = <<>>

\* lines 451-489
AssembleCall ==
    /\ pc = "assemble"
    /\ loc' = [loc EXCEPT !.candidate_items =
                             Assemble(loc.limit, loc.fused_scores, Catalogs[db],
                                      loc.selected_company, loc.selected_channel,
                                      loc.effective_pid, <<>>)]
    /\ pc' = "assembled"
    /\ UNCHANGED <<now, ndev, meta_doc, db, nbuilds, meta_cache, df_cache, search_cache,
                   dv_result_cache, ncalls, req, calls, resp, hist>>

NextAssemble == AssembleCall

SpecAssemble == InitAssemble /\ [][NextAssemble]_vars

----------------------------------------------------------------------------
\* _dashvector_search_cached on its own: up to MaxMemoCalls calls, one after
\* the other, each on any of a few argument tuples; the index answers each
\* query with a list of documents or raises

MemoArgs ==
    [field : {"labels", "features"}, track : {<<"t">>}, query_text : {<<"a">>, <<SP>>},
     top_k : {TOP_K_DASHVECTOR_PER_FIELD}, selected_company : {<<>>},
     selected_channel : {<<>>}]

MemoKey(a) ==
    RouteKey(a.field, a.track, a.query_text, a.top_k, a.selected_company, a.selected_channel)

\* line 270: a blank query text is answered with [] before any backend is used
BlankQuery(a) == Strip(a.query_text) = <<>>

\* One finished call of _dashvector_search_cached
MemoCall(a, out, touched) == [args |-> a, key |-> MemoKey(a), out |-> out, touched |-> touched]

InitMemo ==
    /\ now = 0
    /\ meta_doc = BaseMetaDoc
    /\ ndev = 0
    /\ db = 1
    /\ nbuilds = 0
    /\ meta_cache = <<>>
    /\ df_cache = <<>>
    /\ search_cache = {}
    /\ dv_result_cache = {}
    /\ ncalls = 0
    /\ pc = "memo"
    /\ req = BaseRequest
    /\ loc = <<>>
    /\ calls = {}
    /\ resp = NoResp
    /\ hist = <<>>

MemoCallEnds(a, out, touched) ==
    /\ ncalls' = ncalls + 1
    /\ resp' = out
    /\ calls' = touched
    /\ hist' = Append(hist, MemoCall(a, out, touched))
    /\ UNCHANGED <<now, ndev, meta_doc, db, nbuilds, meta_cache, df_cache, search_cache,
                   pc, req, loc>>

\* lines 305-306
MemoSearchHit(a) ==
    /\ ncalls < MaxMemoCalls
    /\ MemoHit(MemoKey(a)) # {}
    /\ \E e \in MemoHit(MemoKey(a)) : MemoCallEnds(a, Returned(e.val), {})
    /\ UNCHANGED dv_result_cache

\* lines 307-309 with the early return of line 271
MemoSearchBlank(a) ==
    /\ ncalls < MaxMemoCalls
    /\ MemoHit(MemoKey(a)) = {}
    /\ BlankQuery(a)
    /\ dv_result_cache' = dv_result_cache \cup {[key |-> MemoKey(a), val |-> <<>>, args |-> a]}
    /\ MemoCallEnds(a, Returned(<<>>), {})

\* A failed search remembered as an empty list
MemoSearchRaisesStoresEmpty(a, msg) ==
    /\ ncalls < MaxMemoCalls
    /\ MemoHit(MemoKey(a)) = {}
    /\ ~BlankQuery(a)
    /\ dv_result_cache' = dv_result_cache \cup {[key |-> MemoKey(a), val |-> <<>>, args |-> a]}
    /\ MemoCallEnds(a, Raised(msg), {"embedding", "sparse_encoder", "index_query"})

\* line 307 raises: the exception leaves the function before line 308
MemoSearchRaises(a, msg) ==
    /\ ncalls < MaxMemoCalls
    /\ MemoHit(MemoKey(a)) = {}
    /\ ~BlankQuery(a)
    /\ UNCHANGED dv_result_cache
    /\ MemoCallEnds(a, Raised(msg), {"embedding", "sparse_encoder", "index_query"})

\* lines 307-309: the index answers
MemoSearchReturns(a, ret) ==
    /\ ncalls < MaxMemoCalls
    /\ MemoHit(MemoKey(a)) = {}
    /\ ~BlankQuery(a)
    /\ dv_result_cache' = dv_result_cache
                             \cup {[key |-> MemoKey(a), val |-> DocsToResults(ret), args |-> a]}
    /\ MemoCallEnds(a, Returned(DocsToResults(ret)),
                    {"embedding", "sparse_encoder", "index_query"})

NextMemo ==
    \/ \E a \in MemoArgs : MemoSearchHit(a)
    \/ \E a \in MemoArgs : MemoSearchBlank(a)
    \/ \E a \in MemoArgs, msg \in ExcMsgs : MemoSearchRaises(a, msg)
    \/ \E a \in MemoArgs, ret \in HitChoices : MemoSearchReturns(a, ret)

SpecMemo == InitMemo /\ [][NextMemo]_vars

----------------------------------------------------------------------------
\* build_dashvector_indices.main: up to MaxBuilds runs, one after the other.
\* loc holds the locals of the run in flight and the upsert calls it has made
\* (the documents of each call and whether the call succeeded); meta_doc is
\* the '__meta__#latest' document; hist lists the runs that have ended.

\* BATCH_DOCS (DASHVECTOR_UPSERT_BATCH, 64 unless set)
BATCH_DOCS == 64

BatchSizes == {2, 3, BATCH_DOCS}

\* df.iterrows() x TEXT_FIELDS: every (row, field) the loops visit, in order
BuildTodo(df) ==
    LET pids == SelectSeq(<<P1, P2, P3, P4, PZ>>, LAMBDA p : p \in DOMAIN Catalogs[df])
    IN  [k \in 1..(Len(pids) * Len(TEXT_FIELDS)) |->
            [product_id |-> pids[((k - 1) \div Len(TEXT_FIELDS)) + 1],
             field |-> TEXT_FIELDS[((k - 1) % Len(TEXT_FIELDS)) + 1]]]

\* is_valid_text(normalize_text(field, row.get(field, "")))
IsValidText(df, item) ==
    Strip(normalize_field_text(item.field, Catalogs[df][item.product_id].fields[item.field]))
       # <<>>

NoBuild ==
    [build_id |-> 0, ingest_dt |-> NoDt, df |-> 0, batch |-> 0, todo |-> <<>>,
     buffer |-> <<>>, total_docs |-> 0, skipped_docs |-> 0, sent |-> <<>>]

InitBuild ==
    /\ now = 0
    /\ meta_doc = [present |-> FALSE, ingest_dt |-> NoDt, build_id |-> 0]
    /\ ndev = 0
    /\ db = 1
    /\ nbuilds = 0
    /\ meta_cache = <<>>
    /\ df_cache = <<>>
    /\ search_cache = {}
    /\ dv_result_cache = {}
    /\ ncalls = 0
    /\ pc = "idle"
    /\ req = BaseRequest
    /\ loc = NoBuild
    /\ calls = {}
    /\ resp = NoResp
    /\ hist = <<>>

\* the run ends: main returns or raises
BuildEnds(l, outcome) ==
    /\ pc' = outcome
    /\ hist' = Append(hist, [build_id |-> l.build_id, ingest_dt |-> l.ingest_dt,
                             outcome |-> outcome, sent |-> l.sent])

\* lines 178-206: a run starts
BuildStart(batch) ==
    /\ pc \in {"idle", "completed", "raised"}
    /\ nbuilds < MaxBuilds
    /\ nbuilds' = nbuilds + 1
    /\ loc' = [NoBuild EXCEPT !.build_id = nbuilds + 1, !.ingest_dt = now, !.df = db,
                              !.batch = batch, !.todo = BuildTodo(db)]
    /\ pc' = "scan"
    /\ UNCHANGED <<now, ndev, meta_doc, db, meta_cache, df_cache, search_cache,
                   dv_result_cache, ncalls, req, calls, resp, hist>>

\* lines 185-201: the table, the encoder, the embedding probe or the
\* collection cannot be had
BuildStartRaises ==
    /\ pc \in {"idle", "completed", "raised"}
    /\ nbuilds < MaxBuilds
    /\ nbuilds' = nbuilds + 1
    /\ loc' = [NoBuild EXCEPT !.build_id = nbuilds + 1, !.ingest_dt = now]
    /\ BuildEnds(loc', "raised")
    /\ UNCHANGED <<now, ndev, meta_doc, db, meta_cache, df_cache, search_cache,
                   dv_result_cache, ncalls, req, calls, resp>>

\* lines 221-224: no text for this field
BuildSkip ==
    /\ pc = "scan"
    /\ loc.todo # <<>>
    /\ ~IsValidText(loc.df, Head(loc.todo))
    /\ loc' = [loc EXCEPT !.todo = Tail(@), !.skipped_docs = @ + 1]
    /\ UNCHANGED <<now, ndev, meta_doc, db, nbuilds, meta_cache, df_cache, search_cache,
                   dv_result_cache, ncalls, pc, req, calls, resp, hist>>

\* lines 226-249: the document is buffered, the buffer is not full
BuildAppend ==
    /\ pc = "scan"
    /\ loc.todo # <<>>
    /\ IsValidText(loc.df, Head(loc.todo))
    /\ Len(loc.buffer) + 1 < loc.batch
    /\ loc' = [loc EXCEPT !.todo = Tail(@), !.buffer = Append(@, Head(loc.todo)),
                          !.total_docs = @ + 1]
    /\ UNCHANGED <<now, ndev, meta_doc, db, nbuilds, meta_cache, df_cache, search_cache,
                   dv_result_cache, ncalls, pc, req, calls, resp, hist>>

\* lines 227-228: the embedding or the sparse encoder raises
BuildEmbedRaises ==
    /\ pc = "scan"
    /\ loc.todo # <<>>
    /\ IsValidText(loc.df, Head(loc.todo))
    /\ BuildEnds(loc, "raised")
    /\ UNCHANGED <<now, ndev, meta_doc, db, nbuilds, meta_cache, df_cache, search_cache,
                   dv_result_cache, ncalls, req, loc, calls, resp>>

\* One call of collection.upsert and its outcome
UpsertCall(docs, ok) == [docs |-> docs, ok |-> ok]

\* lines 251-254: the buffer is full and the upsert succeeds
BuildAppendFlush ==
    /\ pc = "scan"
    /\ loc.todo # <<>>
    /\ IsValidText(loc.df, Head(loc.todo))
    /\ Len(loc.buffer) + 1 >= loc.batch
    /\ loc' = [loc EXCEPT !.todo = Tail(@), !.buffer = <<>>, !.total_docs = @ + 1,
                          !.sent = Append(@, UpsertCall(Append(loc.buffer, Head(loc.todo)),
                                                        TRUE))]
    /\ UNCHANGED <<now, ndev, meta_doc, db, nbuilds, meta_cache, df_cache, search_cache,
                   dv_result_cache, ncalls, pc, req, calls, resp, hist>>

\* A flush that does not look at what upsert returned
BuildAppendFlushFailsUnnoticed ==
    /\ pc = "scan"
    /\ loc.todo # <<>>
    /\ IsValidText(loc.df, Head(loc.todo))
    /\ Len(loc.buffer) + 1 >= loc.batch
    /\ loc' = [loc EXCEPT !.todo = Tail(@), !.buffer = <<>>, !.total_docs = @ + 1,
                          !.sent = Append(@, UpsertCall(Append(loc.buffer, Head(loc.todo)),
                                                        FALSE))]
    /\ UNCHANGED <<now, ndev, meta_doc, db, nbuilds, meta_cache, df_cache, search_cache,
                   dv_result_cache, ncalls, pc, req, calls, resp, hist>>

\* lines 252, 135-137: the buffer is full and the upsert fails
BuildAppendFlushFails ==
    /\ pc = "scan"
    /\ loc.todo # <<>>
    /\ IsValidText(loc.df, Head(loc.todo))
    /\ Len(loc.buffer) + 1 >= loc.batch
    /\ loc' = [loc EXCEPT !.todo = Tail(@), !.buffer = Append(@, Head(loc.todo)),
                          !.total_docs = @ + 1,
                          !.sent = Append(@, UpsertCall(Append(loc.buffer, Head(loc.todo)),
                                                        FALSE))]
    /\ BuildEnds(loc', "raised")
    /\ UNCHANGED <<now, ndev, meta_doc, db, nbuilds, meta_cache, df_cache, search_cache,
                   dv_result_cache, ncalls, req, calls, resp>>

\* lines 256-257: what is left in the buffer is upserted (nothing, if empty)
BuildFinalFlush ==
    /\ pc = "scan"
    /\ loc.todo = <<>>
    /\ loc' = [loc EXCEPT !.buffer = <<>>,
                          !.sent = IF loc.buffer = <<>> THEN @
                                   ELSE Append(@, UpsertCall(loc.buffer, TRUE))]
    /\ pc' = "meta"
    /\ UNCHANGED <<now, ndev, meta_doc, db, nbuilds, meta_cache, df_cache, search_cache,
                   dv_result_cache, ncalls, req, calls, resp, hist>>

\* line 257 with a failing upsert
BuildFinalFlushFails ==
    /\ pc = "scan"
    /\ loc.todo = <<>>
    /\ loc.buffer # <<>>
    /\ loc' = [loc EXCEPT !.sent = Append(@, UpsertCall(loc.buffer, FALSE))]
    /\ BuildEnds(loc', "raised")
    /\ UNCHANGED <<now, ndev, meta_doc, db, nbuilds, meta_cache, df_cache, search_cache,
                   dv_result_cache, ncalls, req, calls, resp>>

\* the latest and the history meta document of the run
MetaDocsOf(l) ==
    <<[product_id |-> <<"__meta__">>, field |-> "latest"],
      [product_id |-> <<"__meta__">>, field |-> <<"build_", l.build_id>>]>>

\* lines 259-273: the meta documents are upserted, main returns
BuildMeta ==
    /\ pc = "meta"
    /\ meta_doc' = [present |-> TRUE, ingest_dt |-> loc.ingest_dt, build_id |-> loc.build_id]
    /\ loc' = [loc EXCEPT !.sent = Append(@, UpsertCall(MetaDocsOf(loc), TRUE))]
    /\ BuildEnds(loc', "completed")
    /\ UNCHANGED <<now, ndev, db, nbuilds, meta_cache, df_cache, search_cache,
                   dv_result_cache, ncalls, req, calls, resp>>

\* line 268 with a failing upsert
BuildMetaFails ==
    /\ pc = "meta"
    /\ loc' = [loc EXCEPT !.sent = Append(@, UpsertCall(MetaDocsOf(loc), FALSE))]
    /\ BuildEnds(loc', "raised")
    /\ UNCHANGED <<now, ndev, meta_doc, db, nbuilds, meta_cache, df_cache, search_cache,
                   dv_result_cache, ncalls, req, calls, resp>>

\* a second passes
BuildTick ==
    /\ now < MaxBuilds
    /\ Tick(1)
    /\ UNCHANGED ndev

NextBuild ==
    \/ \E batch \in BatchSizes : BuildStart(batch)
    \/ BuildStartRaises
    \/ BuildSkip
    \/ BuildAppend
    \/ BuildEmbedRaises
    \/ BuildAppendFlush
    \/ BuildAppendFlushFails
    \/ BuildFinalFlush
    \/ BuildFinalFlushFails
    \/ BuildMeta
    \/ BuildMetaFails
    \/ BuildTick
    \/ CatalogRewrite /\ UNCHANGED ndev

SpecBuild == InitBuild /\ [][NextBuild]_vars

----------------------------------------------------------------------------
\* The build tasks of pipeline/batch_parse.py.  start_pipeline_task records a
\* task and starts a daemon thread for it; the threads of several tasks run at
\* the same time.  Here
\*   loc   is _TASKS, the record of task t at position t,
\*   pc    is the position of each task's thread,
\*   resp  is, per task, what its thread has done so far,
\*   calls is the set of threads holding _TASK_LOCK (empty or one thread),
\*   hist  is what get_task_status has returned, oldest first.
\* _new_task stores the record in one assignment; _finish_task and _fail_task
\* assign the fields one statement after the other while they hold the lock,
\* and get_task_status reads _TASKS without taking it.

TaskIds == 1..MaxTasks

TaskEvent(ev, msg) == [ev |-> ev, msg |-> msg, at |-> now]

TaskDid(log, ev) == \E i \in 1..Len(log) : log[i].ev = ev

\* lines 97-103
NewTaskRecord(task_id) ==
    [task_id |-> task_id, task_status |-> "running", started_at |-> now,
     finished_at |-> NoDt, error |-> None]

InitTasks ==
    /\ now = 0
    /\ meta_doc = [present |-> FALSE, ingest_dt |-> NoDt, build_id |-> 0]
    /\ ndev = 0
    /\ db = 1
    /\ nbuilds = 0
    /\ meta_cache = <<>>
    /\ df_cache = <<>>
    /\ search_cache = {}
    /\ dv_result_cache = {}
    /\ ncalls = 0
    /\ pc = <<>>
    /\ req = BaseRequest
    /\ loc = <<>>
    /\ calls = {}
    /\ resp = <<>>
    /\ hist = <<>>

\* lines 165-180: start_pipeline_task; _new_task waits for the lock, the thread
\* starts with the parse job (line 157)
StartPipelineTask ==
    /\ ncalls < MaxTasks
    /\ calls = {}
    /\ ncalls' = ncalls + 1
    /\ loc' = Append(loc, NewTaskRecord(ncalls + 1))
    /\ pc' = Append(pc, "parse")
    /\ resp' = Append(resp, <<TaskEvent("parse_start", <<>>)>>)
    /\ UNCHANGED <<now, ndev, meta_doc, db, nbuilds, meta_cache, df_cache,
                   search_cache, dv_result_cache, req, calls, hist>>

\* lines 118-147, 157-158: the parse job returns, having replaced the table of
\* parsed products; the index job starts
ParseReturns(t) ==
    /\ t \in 1..Len(pc)
    /\ pc[t] = "parse"
    /\ db' \in 1..Len(Catalogs)
    /\ resp' = [resp EXCEPT ![t] = @ \o <<TaskEvent("parse_ok", <<>>),
                                          TaskEvent("index_start", <<>>)>>]
    /\ pc' = [pc EXCEPT ![t] = "index"]
    /\ UNCHANGED <<now, ndev, meta_doc, nbuilds, meta_cache, df_cache, search_cache,
                   dv_result_cache, ncalls, req, loc, calls, hist>>

\* lines 157, 161: the parse job raises
ParseRaises(t, msg) ==
    /\ t \in 1..Len(pc)
    /\ pc[t] = "parse"
    /\ resp' = [resp EXCEPT ![t] = Append(@, TaskEvent("parse_exc", msg))]
    /\ pc' = [pc EXCEPT ![t] = "fail"]
    /\ UNCHANGED <<now, ndev, meta_doc, db, nbuilds, meta_cache, df_cache, search_cache,
                   dv_result_cache, ncalls, req, loc, calls, hist>>

\* lines 149-152, 158: the index job returns: main has upserted the latest meta
\* document with the ingest_dt it took when it started
IndexReturns(t) ==
    /\ t \in 1..Len(pc)
    /\ pc[t] = "index"
    /\ meta_doc' = [present |-> TRUE, ingest_dt |-> resp[t][Len(resp[t])].at,
                    build_id |-> t]
    /\ nbuilds' = nbuilds + 1
    /\ resp' = [resp EXCEPT ![t] = Append(@, TaskEvent("index_ok", <<>>))]
    /\ pc' = [pc EXCEPT ![t] = "finish"]
    /\ UNCHANGED <<now, ndev, db, meta_cache, df_cache, search_cache,
                   dv_result_cache, ncalls, req, loc, calls, hist>>

\* lines 158, 161: the index job raises
IndexRaises(t, msg) ==
    /\ t \in 1..Len(pc)
    /\ pc[t] = "index"
    /\ resp' = [resp EXCEPT ![t] = Append(@, TaskEvent("index_exc", msg))]
    /\ pc' = [pc EXCEPT ![t] = "fail"]
    /\ UNCHANGED <<now, ndev, meta_doc, db, nbuilds, meta_cache, df_cache, search_cache,
                   dv_result_cache, ncalls, req, loc, calls, hist>>

\* lines 106, 112: _finish_task or _fail_task takes _TASK_LOCK
TaskLock(t) ==
    /\ t \in 1..Len(pc)
    /\ pc[t] \in {"finish", "fail"}
    /\ calls = {}
    /\ calls' = {t}
    /\ pc' = [pc EXCEPT ![t] = IF @ = "finish" THEN "finish_status" ELSE "fail_status"]
    /\ UNCHANGED <<now, ndev, meta_doc, db, nbuilds, meta_cache, df_cache, search_cache,
                   dv_result_cache, ncalls, req, loc, resp, hist>>

\* lines 107-108
FinishStatus(t) ==
    /\ t \in 1..Len(pc)
    /\ pc[t] = "finish_status"
    /\ loc' = [loc EXCEPT ![t].task_status = "success"]
    /\ pc' = [pc EXCEPT ![t] = "finish_stamp"]
    /\ UNCHANGED <<now, ndev, meta_doc, db, nbuilds, meta_cache, df_cache, search_cache,
                   dv_result_cache, ncalls, req, calls, resp, hist>>

\* line 109, and the lock is given back
FinishStamp(t) ==
    /\ t \in 1..Len(pc)
    /\ pc[t] = "finish_stamp"
    /\ loc' = [loc EXCEPT ![t].finished_at = now]
    /\ calls' = {}
    /\ pc' = [pc EXCEPT ![t] = "done"]
    /\ UNCHANGED <<now, ndev, meta_doc, db, nbuilds, meta_cache, df_cache, search_cache,
                   dv_result_cache, ncalls, req, resp, hist>>

\* lines 113-114
FailStatus(t) ==
    /\ t \in 1..Len(pc)
    /\ pc[t] = "fail_status"
    /\ loc' = [loc EXCEPT ![t].task_status = "fail"]
    /\ pc' = [pc EXCEPT ![t] = "fail_stamp"]
    /\ UNCHANGED <<now, ndev, meta_doc, db, nbuilds, meta_cache, df_cache, search_cache,
                   dv_result_cache, ncalls, req, calls, resp, hist>>

\* line 115
FailStamp(t) ==
    /\ t \in 1..Len(pc)
    /\ pc[t] = "fail_stamp"
    /\ loc' = [loc EXCEPT ![t].finished_at = now]
    /\ pc' = [pc EXCEPT ![t] = "fail_error"]
    /\ UNCHANGED <<now, ndev, meta_doc, db, nbuilds, meta_cache, df_cache, search_cache,
                   dv_result_cache, ncalls, req, calls, resp, hist>>

\* line 116: str(e) of the exception caught at line 161, and the lock is given
\* back
FailError(t) ==
    /\ t \in 1..Len(pc)
    /\ pc[t] = "fail_error"
    /\ loc' = [loc EXCEPT ![t].error = resp[t][Len(resp[t])].msg]
    /\ calls' = {}
    /\ pc' = [pc EXCEPT ![t] = "done"]
    /\ UNCHANGED <<now, ndev, meta_doc, db, nbuilds, meta_cache, df_cache, search_cache,
                   dv_result_cache, ncalls, req, resp, hist>>

\* lines 182-186: get_task_status, which does not take the lock
GetTaskStatus(task_id) ==
    /\ Len(hist) < MaxReads
    /\ hist' = Append(hist,
                 IF task_id \in 1..Len(loc)
                 THEN [task_id |-> task_id, status |-> "SUCCESS", failCause |-> "",
                       content |-> <<loc[task_id]>>]
                 ELSE [task_id |-> task_id, status |-> "FAIL",
                       failCause |-> "TASK_NOT_FOUND", content |-> <<>>])
    /\ UNCHANGED <<now, ndev, meta_doc, db, nbuilds, meta_cache, df_cache, search_cache,
                   dv_result_cache, ncalls, pc, req, loc, calls, resp>>

\* a second passes
TaskTick ==
    /\ now < MaxTasks
    /\ Tick(1)
    /\ UNCHANGED ndev

NextTasks ==
    \/ StartPipelineTask
    \/ \E t \in TaskIds : ParseReturns(t)
    \/ \E t \in TaskIds, msg \in ExcMsgs : ParseRaises(t, msg)
    \/ \E t \in TaskIds : IndexReturns(t)
    \/ \E t \in TaskIds, msg \in ExcMsgs : IndexRaises(t, msg)
    \/ \E t \in TaskIds : TaskLock(t)
    \/ \E t \in TaskIds : FinishStatus(t)
    \/ \E t \in TaskIds : FinishStamp(t)
    \/ \E t \in TaskIds : FailStatus(t)
    \/ \E t \in TaskIds : FailStamp(t)
    \/ \E t \in TaskIds : FailError(t)
    \/ \E task_id \in TaskIds : GetTaskStatus(task_id)
    \/ TaskTick

SpecTasks == InitTasks /\ [][NextTasks]_vars

----------------------------------------------------------------------------
\* The list parsers of pipeline/batch_parse.py (_coerce_to_list), which the
\* parse job applies to the extractor's labels and features

\* s.strip(chars)
RECURSIVE LStripChars(_, _)
LStripChars(s, chars) ==
    IF s # <<>> /\ Head(s) \in chars THEN LStripChars(Tail(s), chars) ELSE s

RECURSIVE RStripChars(_, _)
RStripChars(s, chars) ==
    IF s # <<>> /\ s[Len(s)] \in chars
    THEN RStripChars(SubSeq(s, 1, Len(s) - 1), chars) ELSE s

StripChars(s, chars) == RStripChars(LStripChars(s, chars), chars)

\* s.replace(c, "") for every c of chars
WithoutChars(s, chars) == SelectSeq(s, LAMBDA c : c \notin chars)

\* a JSON string without escapes
IsJsonString(t) ==
    /\ Len(t) >= 2
    /\ t[1] = "\""
    /\ t[Len(t)] = "\""
    /\ \A i \in 2..(Len(t) - 1) : t[i] \notin {"\"", "\\"}

\* lines 50-52: json.loads(raw) followed by isinstance(val, list), for texts
\* built from letters, blanks, quotes, commas and brackets: [ok, xs], ok when
\* raw is a JSON array of strings
JsonLoadsList(raw) ==
    LET n == Len(raw)
        bracketed == n >= 2 /\ raw[1] = "[" /\ raw[n] = "]"
        pieces == IF bracketed THEN SplitOn(SubSeq(raw, 2, n - 1), ",", <<>>) ELSE <<>>
    IN  IF ~bracketed THEN [ok |-> FALSE, xs |-> <<>>]
        ELSE IF Len(pieces) = 1 /\ Strip(pieces[1]) = <<>> THEN [ok |-> TRUE, xs |-> <<>>]
        ELSE IF \A i \in 1..Len(pieces) : IsJsonString(Strip(pieces[i]))
        THEN [ok |-> TRUE, xs |-> [i \in 1..Len(pieces) |-> Unquote(Strip(pieces[i]))]]
        ELSE [ok |-> FALSE, xs |-> <<>>]

\* lines 63-64: the fallback split
CommaSplit(raw) ==
    LET txt == WithoutChars(StripChars(raw, {"[", "]"}), {"'", "\""})
        kept == SelectSeq(SplitOn(txt, ",", <<>>), LAMBDA p : Strip(p) # <<>>)
    IN  [i \in 1..Len(kept) |-> Strip(kept[i])]

----------------------------------------------------------------------------
\* Field normalisation on its own: lines 421-432 of search_competitors applied
\* to a field map in which one list-typed field and one scalar field carry any
\* of the values below.  loc holds the field map and what the lines computed.

\* values of a list-typed field: NaN, a list, and texts
ListFieldValues ==
    { NaNVal, ListVal(<< <<"a">>, <<"b">> >>) }
    \cup { TextVal(t) : t \in
            { <<>>, <<SP>>, <<"a">>, <<SP, "a", SP>>,
              <<"a", ",", "b">>, <<"a", ",", SP, "b">>,
              <<"[", "a", ",", SP, "b", "]">>,
              <<"[", "'", "a", "'", ",", SP, "'", "b", "'", "]">>,
              <<"[", "\"", "a", "\"", ",", SP, "\"", "b", "\"", "]">>,
              <<"(", "'", "a", "'", ",", SP, "'", "b", "'", ")">>,
              <<"'", "a", "'">>, <<"[", "'", "a", "'", "]">>, <<"[", "]">> } }

\* values of a scalar field
ScalarFieldValues ==
    { NaNVal }
    \cup { TextVal(t) : t \in
            { <<>>, <<SP>>, <<SP, SP>>, <<"a">>, <<SP, "a">>, <<"a", SP>>,
              <<SP, "a", SP>>, <<"a", SP, "b">> } }

NormListField == "labels"
NormScalarField == "summary_coverage"

NormFieldMaps ==
    { [EmptyFields EXCEPT ![NormListField] = lv, ![NormScalarField] = sv] :
        lv \in ListFieldValues, sv \in ScalarFieldValues }

InitNormalize ==
    /\ now = 0
    /\ meta_doc = BaseMetaDoc
    /\ ndev = 0
    /\ db = 1
    /\ nbuilds = 0
    /\ meta_cache = <<>>
    /\ df_cache = <<>>
    /\ search_cache = {}
    /\ dv_result_cache = {}
    /\ ncalls = 0
    /\ pc = "normalize"
    /\ req = BaseRequest
    /\ loc \in { [parsed_fields |-> m, normalized_query_fields |-> <<>>,
                  rerank_query_text |-> <<>>, pending |-> {}] : m \in NormFieldMaps }
    /\ calls = {}
    /\ resp = NoResp
    /\ hist = <<>>

\* lines 421-432
NormalizeCall ==
    /\ pc = "normalize"
    /\ loc' = [loc EXCEPT
                 !.normalized_query_fields = NormalizedFields(loc.parsed_fields),
                 !.rerank_query_text =
                     build_combined_text_from_fields_map(loc.parsed_fields),
                 !.pending = Dispatch(loc.parsed_fields)]
    /\ pc' = "normalized"
    /\ UNCHANGED <<now, ndev, meta_doc, db, nbuilds, meta_cache, df_cache, search_cache,
                   dv_result_cache, ncalls, req, calls, resp, hist>>

NextNormalize == NormalizeCall

SpecNormalize == InitNormalize /\ [][NextNormalize]_vars

----------------------------------------------------------------------------
\* Document identifiers from ingestion to a route hit.  The index build writes
\* one document per product and text field (build_dashvector_indices.main,
\* lines 211-226); a route search reads the product id back from a hit
\* (retrieval._dashvector_search, lines 290-298).  loc holds the product id
\* column of the row, the field, the identifier written and the results of
\* the search.  A field name is one symbol of the identifier.

MaxIdLen == 3

IdChars == {"p", "#", SP}

RawProductIds == UNION { [1..n -> IdChars] : n \in 1..MaxIdLen }

InitDocIds ==
    /\ now = 0
    /\ meta_doc = BaseMetaDoc
    /\ ndev = 0
    /\ db = 1
    /\ nbuilds = 0
    /\ meta_cache = <<>>
    /\ df_cache = <<>>
    /\ search_cache = {}
    /\ dv_result_cache = {}
    /\ ncalls = 0
    /\ pc = "row"
    /\ req = BaseRequest
    /\ loc \in { [row_product_id |-> raw, field |-> f, product_id |-> <<>>,
                  doc_id |-> <<>>, results |-> <<>>] :
                 raw \in RawProductIds, f \in SeqToSet(TEXT_FIELDS) }
    /\ calls = {}
    /\ resp = NoResp
    /\ hist = <<>>

\* lines 211, 217-218: a row whose product id is blank is skipped
IngestSkipsRow ==
    /\ pc = "row"
    /\ Strip(loc.row_product_id) = <<>>
    /\ pc' = "skipped"
    /\ UNCHANGED <<now, ndev, meta_doc, db, nbuilds, meta_cache, df_cache, search_cache,
                   dv_result_cache, ncalls, req, loc, calls, resp, hist>>

\* lines 211, 226: doc_id = f"{product_id}#{field}"
IngestDoc ==
    /\ pc = "row"
    /\ Strip(loc.row_product_id) # <<>>
    /\ loc' = [loc EXCEPT !.product_id = Strip(loc.row_product_id),
                          !.doc_id = Strip(loc.row_product_id) \o <<"#", loc.field>>]
    /\ pc' = "indexed"
    /\ UNCHANGED <<now, ndev, meta_doc, db, nbuilds, meta_cache, df_cache, search_cache,
                   dv_result_cache, ncalls, req, calls, resp, hist>>

\* lines 290-298: the index returns the document without a product_id field
RouteHitWithoutProductId ==
    /\ pc = "indexed"
    /\ loc' = [loc EXCEPT !.results = DocsToResults(<<Doc(loc.doc_id, <<>>, 1)>>)]
    /\ pc' = "hit"
    /\ UNCHANGED <<now, ndev, meta_doc, db, nbuilds, meta_cache, df_cache, search_cache,
                   dv_result_cache, ncalls, req, calls, resp, hist>>

NextDocIds ==
    \/ IngestSkipsRow
    \/ IngestDoc
    \/ RouteHitWithoutProductId

SpecDocIds == InitDocIds /\ [][NextDocIds]_vars

----------------------------------------------------------------------------
\* Requests served at the same time.  The endpoint is a plain function, so each
\* request runs search_competitors in its own worker thread, and the caches
\* are module globals.  Every thread asks the base request; a cache lookup, the
\* backend read after a miss and the write of what was read are separate steps.

ThreadIds == 1..MaxCalls

\* generate_results answers the same for the same product_info
ThreadParsed == [EmptyFields EXCEPT !["features"] = ListVal(<<<<"a">>>>)]

ThreadRouteKey ==
    RouteKey("features", NormalizeQuery(BaseRequest.query).product_track,
             normalize_field_text("features", ThreadParsed["features"]),
             TOP_K_DASHVECTOR_PER_FIELD, <<>>, <<>>)

ThreadRouteArgs ==
    [field |-> "features", track |-> NormalizeQuery(BaseRequest.query).product_track,
     query_text |-> normalize_field_text("features", ThreadParsed["features"]),
     top_k |-> TOP_K_DASHVECTOR_PER_FIELD, selected_company |-> <<>>, selected_channel |-> <<>>]

\* What the index answers to the route's query: one content until a build
\* completes, another after it
IndexHits ==
    IF nbuilds = 0
    THEN DocsToResults(<<Doc(<<"p", "#", "a">>, P1, 2), Doc(<<"q", "#", "a">>, P2, 1)>>)
    ELSE DocsToResults(<<Doc(<<"r", "#", "a">>, P3, 1), Doc(<<"q", "#", "a">>, P2, 1)>>)

\* lines 193-229 after a miss: biz_dt and warnings read from the marker
MarkerRead ==
    IF ~meta_doc.present THEN <<now, <<"meta_doc_not_found">>>>
    ELSE IF meta_doc.ingest_dt = NoDt THEN <<now, <<"meta_missing_ingest_dt">>>>
    ELSE <<meta_doc.ingest_dt, <<>>>>

ThreadLoc == [biz |-> <<NoDt, <<>>>>, cand_list |-> <<>>, df |-> 0]

ThreadKey(t) == CacheKey(BaseRequest, <<>>, <<>>, loc[t].biz[1])

\* lines 449-489 for one thread: fusion and assembly
ThreadItems(cand_list, df) ==
    Assemble(MAX_CANDIDATES_FOR_RERANK,
             FuseWithRrf(<<[route |-> RouteName("features"), cands |-> cand_list]>>),
             Catalogs[df], <<>>, <<>>, None, <<>>)

\* lines 498-526: the rerank service answers as in the base scenario
ThreadFinal(items) ==
    FinalItems(items, BaseRerank(Len(items)), BaseRequest.rerank_threshold,
               BaseRequest.max_results)

ThreadQueryDetail(q0) ==
    [product_id |-> q0.product_id, product_name |-> q0.product_name,
     product_track |-> q0.product_track, product_info |-> q0.product_info,
     selected_company |-> q0.selected_company,
     selected_channel |-> q0.selected_channel,
     effective_pid |-> None, parsed_fields |-> ThreadParsed,
     rerank_query_text |-> build_combined_text_from_fields_map(ThreadParsed)]

\* lines 528-530
ThreadWrap(biz, final) ==
    WrapResponseSuccess([query |-> ThreadQueryDetail(NormalizeQuery(BaseRequest.query)),
                         candidates |-> final],
                        biz[1], ProductIds(final), biz[2])

ThreadEnvelope(l) == ThreadWrap(l.biz, ThreadFinal(ThreadItems(l.cand_list, l.df)))

InitThreads ==
    /\ now = 0
    /\ meta_doc \in MetaDocs
    /\ ndev = Cost(meta_doc, BaseMetaDoc)
    /\ db = 1
    /\ nbuilds = 0
    /\ meta_cache = <<>>
    /\ df_cache = <<>>
    /\ search_cache = {}
    /\ dv_result_cache = {}
    /\ ncalls = 0
    /\ pc = [t \in ThreadIds |-> "idle"]
    /\ req = BaseRequest
    /\ loc = [t \in ThreadIds |-> ThreadLoc]
    /\ calls = {}
    /\ resp = [t \in ThreadIds |-> NoResp]
    /\ hist = <<>>

\* lines 188-190: the freshness cache holds the key
TFreshCached(t) ==
    /\ pc[t] = "idle"
    /\ MetaLive
    /\ loc' = [loc EXCEPT ![t].biz = meta_cache[1].val]
    /\ pc' = [pc EXCEPT ![t] = "key"]
    /\ ncalls' = ncalls + 1
    /\ UNCHANGED <<now, meta_doc, db, nbuilds, meta_cache, df_cache, search_cache,
                   dv_result_cache, req, calls, resp, hist>>

\* line 188: it does not
TFreshMiss(t) ==
    /\ pc[t] = "idle"
    /\ ~MetaLive
    /\ pc' = [pc EXCEPT ![t] = "fresh_read"]
    /\ ncalls' = ncalls + 1
    /\ UNCHANGED <<now, meta_doc, db, nbuilds, meta_cache, df_cache, search_cache,
                   dv_result_cache, req, loc, calls, resp, hist>>

\* lines 193-229: the marker is read
TFreshRead(t) ==
    /\ pc[t] = "fresh_read"
    /\ loc' = [loc EXCEPT ![t].biz = MarkerRead]
    /\ pc' = [pc EXCEPT ![t] = "fresh_write"]
    /\ UNCHANGED <<now, meta_doc, db, nbuilds, meta_cache, df_cache, search_cache,
                   dv_result_cache, ncalls, req, calls, resp, hist>>

\* line 231: _meta_cache[cache_key] = (biz_dt, warnings)
TFreshWrite(t) ==
    /\ pc[t] = "fresh_write"
    /\ meta_cache' = <<[val |-> loc[t].biz, at |-> now]>>
    /\ pc' = [pc EXCEPT ![t] = "key"]
    /\ UNCHANGED <<now, meta_doc, db, nbuilds, df_cache, search_cache, dv_result_cache,
                   ncalls, req, loc, calls, resp, hist>>

\* lines 395-396: the response cache holds the key
TResponseCached(t) ==
    /\ pc[t] = "key"
    /\ SearchHit(ThreadKey(t)) # {}
    /\ \E e \in SearchHit(ThreadKey(t)) : resp' = [resp EXCEPT ![t] = Returned(e.val)]
    /\ pc' = [pc EXCEPT ![t] = "done"]
    /\ UNCHANGED <<now, meta_doc, db, nbuilds, meta_cache, df_cache, search_cache,
                   dv_result_cache, ncalls, req, loc, calls, hist>>

\* line 395: it does not
TResponseMiss(t) ==
    /\ pc[t] = "key"
    /\ SearchHit(ThreadKey(t)) = {}
    /\ pc' = [pc EXCEPT ![t] = "recall"]
    /\ UNCHANGED <<now, meta_doc, db, nbuilds, meta_cache, df_cache, search_cache,
                   dv_result_cache, ncalls, req, loc, calls, resp, hist>>

\* lines 305-306: the route memo holds the key
TMemoCached(t) ==
    /\ pc[t] = "recall"
    /\ MemoHit(ThreadRouteKey) # {}
    /\ \E e \in MemoHit(ThreadRouteKey) : loc' = [loc EXCEPT ![t].cand_list = e.val]
    /\ pc' = [pc EXCEPT ![t] = "df"]
    /\ UNCHANGED <<now, meta_doc, db, nbuilds, meta_cache, df_cache, search_cache,
                   dv_result_cache, ncalls, req, calls, resp, hist>>

\* line 305: it does not
TMemoMiss(t) ==
    /\ pc[t] = "recall"
    /\ MemoHit(ThreadRouteKey) = {}
    /\ pc' = [pc EXCEPT ![t] = "route_query"]
    /\ UNCHANGED <<now, meta_doc, db, nbuilds, meta_cache, df_cache, search_cache,
                   dv_result_cache, ncalls, req, loc, calls, resp, hist>>

\* line 307: the index is queried
TRouteQuery(t) ==
    /\ pc[t] = "route_query"
    /\ loc' = [loc EXCEPT ![t].cand_list = IndexHits]
    /\ pc' = [pc EXCEPT ![t] = "memo_write"]
    /\ UNCHANGED <<now, meta_doc, db, nbuilds, meta_cache, df_cache, search_cache,
                   dv_result_cache, ncalls, req, calls, resp, hist>>

\* line 308: _dv_result_cache[key] = res
TMemoWrite(t) ==
    /\ pc[t] = "memo_write"
    /\ dv_result_cache' =
          { e \in dv_result_cache : e.key # ThreadRouteKey }
             \cup { [key |-> ThreadRouteKey, val |-> loc[t].cand_list,
                      args |-> ThreadRouteArgs] }
    /\ pc' = [pc EXCEPT ![t] = "df"]
    /\ UNCHANGED <<now, meta_doc, db, nbuilds, meta_cache, df_cache, search_cache, ncalls,
                   req, loc, calls, resp, hist>>

\* lines 239-240: the catalog cache holds the table
TDfCached(t) ==
    /\ pc[t] = "df"
    /\ DfLive
    /\ loc' = [loc EXCEPT ![t].df = df_cache[1].val]
    /\ pc' = [pc EXCEPT ![t] = "respond"]
    /\ UNCHANGED <<now, meta_doc, db, nbuilds, meta_cache, df_cache, search_cache,
                   dv_result_cache, ncalls, req, calls, resp, hist>>

\* line 239: it does not
TDfMiss(t) ==
    /\ pc[t] = "df"
    /\ ~DfLive
    /\ pc' = [pc EXCEPT ![t] = "df_load"]
    /\ UNCHANGED <<now, meta_doc, db, nbuilds, meta_cache, df_cache, search_cache,
                   dv_result_cache, ncalls, req, loc, calls, resp, hist>>

\* line 241: the table is loaded
TDfLoad(t) ==
    /\ pc[t] = "df_load"
    /\ loc' = [loc EXCEPT ![t].df = db]
    /\ pc' = [pc EXCEPT ![t] = "df_write"]
    /\ UNCHANGED <<now, meta_doc, db, nbuilds, meta_cache, df_cache, search_cache,
                   dv_result_cache, ncalls, req, calls, resp, hist>>

\* line 244: _df_cache[key] = df
TDfWrite(t) ==
    /\ pc[t] = "df_write"
    /\ df_cache' = <<[val |-> loc[t].df, at |-> now]>>
    /\ pc' = [pc EXCEPT ![t] = "respond"]
    /\ UNCHANGED <<now, meta_doc, db, nbuilds, meta_cache, search_cache, dv_result_cache,
                   ncalls, req, loc, calls, resp, hist>>

\* lines 449-533: the envelope is computed, stored and returned
TRespond(t) ==
    /\ pc[t] = "respond"
    /\ \E wrapped \in {ThreadEnvelope(loc[t])} :
          /\ search_cache' = SearchStore(ThreadKey(t), wrapped)
          /\ resp' = [resp EXCEPT ![t] = Returned(wrapped)]
    /\ pc' = [pc EXCEPT ![t] = "done"]
    /\ UNCHANGED <<now, meta_doc, db, nbuilds, meta_cache, df_cache, dv_result_cache,
                   ncalls, req, loc, calls, hist>>

NextThreads ==
    \/ \E t \in ThreadIds : TFreshCached(t) /\ Spend(0)
    \/ \E t \in ThreadIds : TFreshMiss(t) /\ Spend(0)
    \/ \E t \in ThreadIds : TFreshRead(t) /\ Spend(0)
    \/ \E t \in ThreadIds : TFreshWrite(t) /\ Spend(0)
    \/ \E t \in ThreadIds : TResponseCached(t) /\ Spend(0)
    \/ \E t \in ThreadIds : TResponseMiss(t) /\ Spend(0)
    \/ \E t \in ThreadIds : TMemoCached(t) /\ Spend(0)
    \/ \E t \in ThreadIds : TMemoMiss(t) /\ Spend(0)
    \/ \E t \in ThreadIds : TRouteQuery(t) /\ Spend(0)
    \/ \E t \in ThreadIds : TMemoWrite(t) /\ Spend(0)
    \/ \E t \in ThreadIds : TDfCached(t) /\ Spend(0)
    \/ \E t \in ThreadIds : TDfMiss(t) /\ Spend(0)
    \/ \E t \in ThreadIds : TDfLoad(t) /\ Spend(0)
    \/ \E t \in ThreadIds : TDfWrite(t) /\ Spend(0)
    \/ \E t \in ThreadIds : TRespond(t) /\ Spend(0)
    \/ \E d \in TickSteps : Tick(d) /\ Spend(1)
    \/ IndexBuild /\ Spend(1)
    \/ CatalogRewrite /\ Spend(1)

SpecThreads == InitThreads /\ [][NextThreads]_vars

----------------------------------------------------------------------------
\* Requests that name a catalog product: the same handlers, with the choice
\* of the product id free of charge, so that a clock step and a catalog
\* rewrite fit into one request

CatalogRequests ==
    { [BaseRequest EXCEPT !.query.product_id = p] : p \in RawChoices.product_id \ {Absent} }

InitCatalog ==
    /\ Init
    /\ meta_doc = BaseMetaDoc

NextCatalog ==
    \/ \E r \in CatalogRequests : CallCacheHit(r, FALSE) /\ Spend(0)
    \/ \E r \in CatalogRequests : CallMiss(r, FALSE) /\ Spend(0)
    \/ ResolveFromCatalog /\ Spend(0)
    \/ \E load_fails \in BOOLEAN, parsed \in ParsedChoices :
          /\ ResolveByExtractor(load_fails, parsed)
          /\ Spend(Cost(load_fails, FALSE) + Cost(parsed, BaseParsed))
    \/ \E field \in SeqToSet(TEXT_FIELDS) : RouteMemoHit(field) /\ Spend(0)
    \/ \E field \in SeqToSet(TEXT_FIELDS), ret \in HitChoices :
          RouteReturns(field, ret) /\ Spend(Cost(ret, BaseHits(field)))
    \/ \E field \in SeqToSet(TEXT_FIELDS) : RouteRaises(field) /\ Spend(1)
    \/ RespondNoRoutes /\ Spend(0)
    \/ \E msg \in ExcMsgs : AssembleRaises(msg) /\ Spend(1)
    \/ AssembleNone /\ Spend(0)
    \/ AssembleSome /\ Spend(0)
    \/ \E rerank_res \in RerankChoices(Len(loc.candidate_items)) :
          /\ RerankReturns(rerank_res)
          /\ Spend(Cost(rerank_res, BaseRerank(Len(loc.candidate_items))))
    \/ \E d \in TickSteps : Tick(d) /\ Spend(1)
    \/ CatalogRewrite /\ Spend(1)

SpecCatalog == InitCatalog /\ [][NextCatalog]_vars

----------------------------------------------------------------------------
\* What a response says, and what the rerank service said about a candidate

IsSuccess(out) == out.kind = "returned" /\ out.env[1].status = "SUCCESS"

IsFail(out) == out.kind = "returned" /\ out.env[1].status = "FAIL"

EmptySuccess(out) ==
    /\ IsSuccess(out)
    /\ out.env[1].content.product_list = <<>>
    /\ out.env[1].detail.candidates = <<>>

\* The call that has just ended went through the rerank stage and answered
Reranked == pc = "done" /\ loc.rerank_res # <<>> /\ IsSuccess(resp)

\* The entries of the service's answer for the candidate at index idx (0-based)
EntriesFor(idx) == { k \in 1..Len(loc.rerank_res) : loc.rerank_res[k].index = idx }

HasScore(idx) == EntriesFor(idx) # {}

\* The score the service gave the candidate: its last entry for that index
ScoreOf(idx) ==
    loc.rerank_res[CHOOSE k \in EntriesFor(idx) : \A m \in EntriesFor(idx) : m <= k].score

\* Positions (1-based) in the assembled list of the candidates that have a
\* score at or above the threshold
SurvivorPositions ==
    { i \in 1..Len(loc.candidate_items) :
        HasScore(i - 1) /\ ScoreOf(i - 1) >= req.rerank_threshold }

\* Position in the assembled list of the candidate an answered item stands for
PosOf(c) ==
    CHOOSE i \in 1..Len(loc.candidate_items) : loc.candidate_items[i].product_id = c.product_id

RespCandidates == resp.env[1].detail.candidates

RespProductList == resp.env[1].content.product_list

----------------------------------------------------------------------------
\* C1: in every SUCCESS response each candidate carries a rerank_score at or
\* above the request's rerank_threshold, that score is one the rerank service
\* returned for that very candidate, the product_list names exactly the
\* candidates, and a candidate the service left without a score or scored only
\* below the threshold is not in the product_list.
C1_ScoresReachThreshold ==
    /\ \A i \in 1..Len(hist) :
          IsSuccess(hist[i].resp) =>
             /\ \A c \in SeqToSet(hist[i].resp.env[1].detail.candidates) :
                   c.rerank_score >= hist[i].req.rerank_threshold
             /\ hist[i].resp.env[1].content.product_list
                   = [j \in 1..Len(hist[i].resp.env[1].detail.candidates) |->
                         hist[i].resp.env[1].detail.candidates[j].product_id]
    /\ Reranked =>
          /\ \A c \in SeqToSet(RespCandidates) :
                \E i \in 1..Len(loc.candidate_items) :
                   /\ loc.candidate_items[i].product_id = c.product_id
                   /\ \E k \in EntriesFor(i - 1) : loc.rerank_res[k].score = c.rerank_score
          /\ \A i \in 1..Len(loc.candidate_items) :
                (\A k \in EntriesFor(i - 1) : loc.rerank_res[k].score < req.rerank_threshold)
                   => loc.candidate_items[i].product_id \notin SeqToSet(RespProductList)

\* a reranked response that kept one candidate and dropped another: one below
\* the threshold, or one the service did not score
C1_Witness ==
    /\ Reranked
    /\ RespCandidates # <<>>
    /\ \E i \in 1..Len(loc.candidate_items) :
          /\ HasScore(i - 1)
          /\ ScoreOf(i - 1) < req.rerank_threshold
    /\ \E i \in 1..Len(loc.candidate_items) : ~HasScore(i - 1)

----------------------------------------------------------------------------
\* C2, as the specification states it: the product_list of every response has
\* at most max_results entries, for every integer max_results.  (Checked for
\* max_results >= 0: a negative bound cannot be met by any list.)
C2_AtMostMaxResults ==
    \A i \in 1..Len(hist) :
       (hist[i].resp.kind = "returned" /\ hist[i].req.max_results >= 0)
          => Len(hist[i].resp.env[1].content.product_list) <= hist[i].req.max_results

\* C2, amended: for max_results >= 1 the product_list of every response has at
\* most max_results entries; for max_results <= 0 nothing is cut, the
\* product_list holds every candidate that reached the threshold.
C2_AtMostMaxResultsWhenPositive ==
    /\ \A i \in 1..Len(hist) :
          (hist[i].resp.kind = "returned" /\ hist[i].req.max_results >= 1)
             => Len(hist[i].resp.env[1].content.product_list) <= hist[i].req.max_results
    /\ (Reranked /\ req.max_results <= 0)
          => Len(RespProductList) = Cardinality(SurvivorPositions)

\* max_results = 1 cut a list of two or more survivors down to one
C2_Witness ==
    /\ Reranked
    /\ req.max_results = 1
    /\ Cardinality(SurvivorPositions) >= 2
    /\ Len(RespProductList) = 1

----------------------------------------------------------------------------
\* C3: the candidates of a reranked SUCCESS response are a prefix of the
\* survivors in descending rerank_score order, equal scores in the order of the
\* assembled list: every item is a survivor with the service's score, items
\* come best first and ties in assembled order, every survivor left out ranks
\* after every item kept, the prefix has min(max_results, survivors) items
\* (max_results >= 1, the documented range), and product_list lists the same
\* ids in the same order.
RanksBefore(i, j) ==
    \/ ScoreOf(i - 1) > ScoreOf(j - 1)
    \/ (ScoreOf(i - 1) = ScoreOf(j - 1) /\ i < j)

C3_SortedStablePrefix ==
    Reranked =>
       LET cs == RespCandidates
           pos == [j \in 1..Len(cs) |-> PosOf(cs[j])]
           kept == { pos[j] : j \in 1..Len(cs) }
           n == Cardinality(SurvivorPositions)
       IN  /\ \A j \in 1..Len(cs) :
                /\ \E i \in 1..Len(loc.candidate_items) :
                      loc.candidate_items[i].product_id = cs[j].product_id
                /\ pos[j] \in SurvivorPositions
                /\ cs[j].rerank_score = ScoreOf(pos[j] - 1)
           /\ \A j, k \in 1..Len(cs) : j < k => RanksBefore(pos[j], pos[k])
           /\ \A i \in SurvivorPositions \ kept : \A j \in 1..Len(cs) : RanksBefore(pos[j], i)
           /\ req.max_results >= 1
                 => Len(cs) = (IF req.max_results < n THEN req.max_results ELSE n)
           /\ RespProductList = [j \in 1..Len(cs) |-> cs[j].product_id]

\* two survivors tie, the one assembled later comes later, and a third
\* survivor is cut off by max_results
C3_Witness ==
    /\ Reranked
    /\ Len(RespCandidates) >= 2
    /\ \E j \in 1..(Len(RespCandidates) - 1) :
          /\ RespCandidates[j].rerank_score = RespCandidates[j + 1].rerank_score
          /\ PosOf(RespCandidates[j]) < PosOf(RespCandidates[j + 1])
    /\ Cardinality(SurvivorPositions) > Len(RespCandidates)

----------------------------------------------------------------------------
\* C4: a SUCCESS response whose query product_id was found in the catalog
\* (detail.query.effective_pid is set) names that product neither in
\* product_list nor in candidates; and once the lookup has found the product,
\* effective_pid is the trimmed product_id of the query and the assembled
\* candidate list does not hold it.
C4_OwnProductExcluded ==
    /\ \A i \in 1..Len(hist) :
          IsSuccess(hist[i].resp) =>
             LET e == hist[i].resp.env[1]
                 own == e.detail.query.effective_pid
             IN  own # None =>
                    /\ own \notin SeqToSet(e.content.product_list)
                    /\ \A c \in SeqToSet(e.detail.candidates) : c.product_id # own
    /\ (pc \in {"recall", "rerank"} /\ loc.effective_pid # None) =>
          /\ loc.effective_pid = Strip(StrOf(req.query.product_id))
          /\ \A c \in SeqToSet(loc.candidate_items) : c.product_id # loc.effective_pid

\* the product of the query was found, the routes returned it as a hit, ranked
\* first in one of them, and the response still lists other products
C4_Witness ==
    /\ pc = "done"
    /\ IsSuccess(resp)
    /\ loc.effective_pid = P1
    /\ \E k \in 1..Len(loc.route_results) :
          loc.route_results[k].cands[1].product_id = P1
    /\ RespProductList # <<>>

----------------------------------------------------------------------------
\* C5: a call whose query lacks product_name, product_track or product_info,
\* or holds None or only blanks there, returns a FAIL envelope with an empty
\* product_list, empty candidates, and a failCause naming the first such field
\* in the order product_name, product_track, product_info.
Offends(query, k) ==
    \/ query[k].k \in {"absent", "none"}
    \/ \A j \in 1..Len(query[k].s) : query[k].s[j] = SP

MissingRequired(query) == \E i \in 1..Len(REQUIRED_KEYS) : Offends(query, REQUIRED_KEYS[i])

FirstOffending(query) ==
    REQUIRED_KEYS[CHOOSE i \in 1..Len(REQUIRED_KEYS) :
                     /\ Offends(query, REQUIRED_KEYS[i])
                     /\ \A j \in 1..(i - 1) : ~Offends(query, REQUIRED_KEYS[j])]

C5_InvalidQueryFails ==
    \A i \in 1..Len(hist) :
       MissingRequired(hist[i].req.query) =>
          /\ IsFail(hist[i].resp)
          /\ hist[i].resp.env[1].content.product_list = <<>>
          /\ hist[i].resp.env[1].detail.candidates = <<>>
          /\ hist[i].resp.env[1].failCause[2] = FirstOffending(hist[i].req.query)

\* product_name is fine, product_track and product_info both offend: the
\* failCause names product_track
C5_Witness ==
    /\ pc = "done"
    /\ ~Offends(req.query, "product_name")
    /\ Offends(req.query, "product_track")
    /\ Offends(req.query, "product_info")
    /\ IsFail(resp)
    /\ resp.env[1].failCause[2] = "product_track"

----------------------------------------------------------------------------
\* C6, as the specification states it: a call whose query fails validation
\* ends without a single backend call, in every cache state.
C6_NoBackendCallOnInvalidQuery ==
    (pc = "done" /\ MissingRequired(req.query)) => calls = {}

\* The backends the freshness read of line 362 may touch
FreshnessBackends == {"index_fetch", "embedding", "index_query"}

\* C6, amended: a call whose query fails validation ends at once in a FAIL
\* envelope and touches no backend except for the freshness read that comes
\* before validation (the index fetch and, if that finds no marker, an
\* embedding call and an index query); with a live freshness cache entry it
\* touches none.  It never loads the catalog, calls the extractor, the sparse
\* encoder or the rerank service, and it leaves the other caches as they were.
C6_OnlyFreshnessReadOnInvalidQuery ==
    [][ (ncalls' = ncalls + 1 /\ MissingRequired(req'.query)) =>
           /\ pc' = "done"
           /\ IsFail(resp')
           /\ calls' \subseteq FreshnessBackends
           /\ MetaLive => calls' = {}
           /\ df_cache' = df_cache
           /\ search_cache' = search_cache
           /\ dv_result_cache' = dv_result_cache ]_vars

\* a second call, invalid, served with the freshness cache still live
C6_Witness ==
    /\ pc = "done"
    /\ Len(hist) = 2
    /\ MissingRequired(req.query)
    /\ IsFail(resp)
    /\ calls = {}

----------------------------------------------------------------------------
\* C7, as the specification states it: no call of search_competitors raises
\* to its caller; whatever fails once validation has passed, the cache key's
\* construction included, the call returns an envelope.
C7_NeverRaises ==
    \A i \in 1..Len(hist) : hist[i].resp.kind = "returned"

----------------------------------------------------------------------------
\* C8: a request that leaves the recall stage with no non-empty route result,
\* or whose fusion and assembly leave no candidate (the catalog being
\* readable), ends there with SUCCESS, an empty product_list and empty
\* candidates, without a call to the rerank service; the rerank stage is
\* entered only with at least one candidate.
C8_EmptyResultIsSuccess ==
    [][ (pc = "recall" /\ loc.pending = {} /\ pc' # "recall") =>
           /\ loc.route_results = <<>> =>
                 (pc' = "done" /\ EmptySuccess(resp') /\ "rerank" \notin calls')
           /\ (loc.route_results # <<>> /\ CandidateItems = <<>> /\ (DfLive \/ ~IsFail(resp'))) =>
                 (pc' = "done" /\ EmptySuccess(resp') /\ "rerank" \notin calls')
           /\ pc' = "rerank" => loc'.candidate_items # <<>> ]_vars

\* routes returned hits, none of them became a candidate, and the answer is
\* an empty SUCCESS without a rerank call
C8_Witness ==
    /\ pc = "done"
    /\ loc.route_results # <<>>
    /\ EmptySuccess(resp)
    /\ "index_query" \in calls
    /\ "rerank" \notin calls

----------------------------------------------------------------------------
\* C9: while routes are pending nothing ends the request; a route that
\* completes leaves the pending set alone apart from itself; if it raised or
\* returned nothing, the collected route results stay as they are, otherwise
\* exactly its hit list is added under its route name; and when every
\* dispatched route has raised, the request ends with SUCCESS and an empty
\* product_list.
MemoOf(cache, field) == { e \in cache : e.key = FieldRouteKey(field) }

C9_RouteFailuresIsolated ==
    [][ pc = "recall" =>
           /\ loc.pending # {} => (pc' = "recall" /\ resp' = resp /\ hist' = hist)
           /\ \A f \in loc.pending \ loc'.pending :
                 /\ loc'.pending = loc.pending \ {f}
                 /\ IF \A e \in MemoOf(dv_result_cache', f) : e.val = <<>>
                    THEN loc'.route_results = loc.route_results
                    ELSE \E e \in MemoOf(dv_result_cache', f) :
                            loc'.route_results =
                               Append(loc.route_results,
                                      [route |-> RouteName(f), cands |-> e.val])
           /\ loc'.pending = loc.pending => loc'.route_results = loc.route_results
           /\ ( /\ loc.pending = {}
                /\ pc' # "recall"
                /\ Dispatch(loc.parsed_fields) # {}
                /\ \A f \in Dispatch(loc.parsed_fields) : MemoOf(dv_result_cache, f) = {} )
                 => EmptySuccess(resp') ]_vars

\* one dispatched route raised, another returned hits, and the request
\* answered SUCCESS with products
C9_Witness ==
    /\ pc = "done"
    /\ IsSuccess(resp)
    /\ RespProductList # <<>>
    /\ loc.route_results # <<>>
    /\ \E f \in Dispatch(loc.parsed_fields) : MemoOf(dv_result_cache, f) = {}

----------------------------------------------------------------------------
\* C10, as the specification states it: two calls with the same request, the
\* second within the response cache's TTL of the first and no index build
\* completed in between, return equal envelopes, whatever the state of the
\* freshness marker and of the freshness cache.
C10_SameRequestSameEnvelope ==
    \A i, j \in 1..Len(hist) :
       ( /\ i < j
         /\ hist[i].req = hist[j].req
         /\ hist[i].resp.kind = "returned"
         /\ hist[j].resp.kind = "returned"
         /\ hist[j].at < hist[i].at + SEARCH_TTL
         /\ hist[i].builds = hist[j].builds )
          => hist[i].resp = hist[j].resp

\* C10, amended: two calls with the same request that resolve the same biz_dt
\* (the marker is read with the same result, or the second call falls on the
\* freshness cache entry of the first), with no index build completed in
\* between and the second call within the response cache's TTL of the moment
\* the first call's envelope was computed, return equal envelopes.
C10_SameRequestSameBizDtSameEnvelope ==
    \A i, j \in 1..Len(hist) :
       ( /\ i < j
         /\ hist[i].req = hist[j].req
         /\ hist[i].resp.kind = "returned"
         /\ hist[j].resp.kind = "returned"
         /\ hist[i].biz_dt = hist[j].biz_dt
         /\ hist[j].at < hist[i].stored + SEARCH_TTL
         /\ hist[i].builds = hist[j].builds )
          => hist[i].resp = hist[j].resp

\* the same valid request again after the freshness cache and the catalog
\* cache have expired: the marker is read again, gives the same biz_dt, and
\* the response cache answers with the first envelope
C10_Witness ==
    /\ Len(hist) = 2
    /\ hist[1].req = hist[2].req
    /\ IsSuccess(hist[1].resp)
    /\ hist[1].resp.env[1].content.product_list # <<>>
    /\ hist[2].resp = hist[1].resp
    /\ hist[2].at >= hist[1].at + DF_TTL
    /\ hist[2].biz_dt = hist[1].biz_dt
    /\ hist[2].builds = hist[1].builds

----------------------------------------------------------------------------
\* What the response cache key is made of, read off two requests

EffectiveCompany(r) == EffectiveList(r.selected_company, NormStrList(r.query.selected_company))

EffectiveChannel(r) == EffectiveList(r.selected_channel, NormStrList(r.query.selected_channel))

\* equal after trimming, equal filters, equal threshold, equal biz_dt
SameNormalized(r1, dt1, r2, dt2) ==
    /\ NormalizeQuery(r1.query).product_id = NormalizeQuery(r2.query).product_id
    /\ NormalizeQuery(r1.query).product_name = NormalizeQuery(r2.query).product_name
    /\ NormalizeQuery(r1.query).product_track = NormalizeQuery(r2.query).product_track
    /\ NormalizeQuery(r1.query).product_info = NormalizeQuery(r2.query).product_info
    /\ EffectiveCompany(r1) = EffectiveCompany(r2)
    /\ EffectiveChannel(r1) = EffectiveChannel(r2)
    /\ r1.rerank_threshold = r2.rerank_threshold
    /\ dt1 = dt2

\* equal as given (a missing key counting as ""), equal filters, equal
\* threshold, equal max_results, equal biz_dt
SameAsGiven(r1, dt1, r2, dt2) ==
    /\ \A k \in {"product_id", "product_name", "product_track", "product_info"} :
          KeyVal(r1.query[k]) = KeyVal(r2.query[k])
    /\ EffectiveCompany(r1) = EffectiveCompany(r2)
    /\ EffectiveChannel(r1) = EffectiveChannel(r2)
    /\ r1.rerank_threshold = r2.rerank_threshold
    /\ r1.max_results = r2.max_results
    /\ dt1 = dt2

\* an earlier call that returned an envelope for a query that passed validation
Answered(i) == hist[i].resp.kind = "returned" /\ ~MissingRequired(hist[i].req.query)

PipelineBackends == {"field_extractor", "catalog_load", "embedding", "sparse_encoder",
                     "index_query", "rerank"}

----------------------------------------------------------------------------
\* C11, as the specification states it: a request whose trimmed query fields,
\* filters, threshold and biz_dt equal those of an earlier answered request,
\* arriving within the TTL of that answer, is served from the response cache:
\* it never enters the pipeline.
C11_NormalizedQueryHitsCache ==
    \A i \in 1..Len(hist) :
       ( /\ Answered(i)
         /\ ~MissingRequired(req.query)
         /\ SameNormalized(hist[i].req, hist[i].biz_dt, req, loc.biz_dt)
         /\ now < hist[i].stored + SEARCH_TTL )
          => pc \in {"idle", "done"}

\* C11, amended: the response cache is keyed by the query's product_id,
\* product_name, product_track and product_info as given (not trimmed; a
\* missing key as ""), the effective filter lists, rerank_threshold,
\* max_results and biz_dt.  A call that agrees in all of these with an earlier
\* answered call, within the TTL of that answer, ends at once with that answer
\* and touches no backend beyond the freshness read; and a call is answered
\* from the cache only with the answer of an earlier call that agrees with it
\* in all of these.
C11_KeyedByGivenValues ==
    [][ (ncalls' = ncalls + 1 /\ ~MissingRequired(req'.query) /\ resp'.kind # "raised") =>
           LET Hit(i) == /\ Answered(i)
                         /\ SameAsGiven(hist[i].req, hist[i].biz_dt, req', loc'.biz_dt)
                         /\ now < hist[i].stored + SEARCH_TTL
           IN  /\ (\E i \in 1..Len(hist) : Hit(i)) =>
                     /\ pc' = "done"
                     /\ calls' \cap PipelineBackends \subseteq FreshnessBackends
                     /\ "field_extractor" \notin calls'
                     /\ "catalog_load" \notin calls'
                     /\ "rerank" \notin calls'
                     /\ "sparse_encoder" \notin calls'
               /\ pc' = "done" =>
                     \E i \in 1..Len(hist) : Hit(i) /\ resp' = hist[i].resp ]_vars

\* the same request again after the catalog was rewritten: answered at once
\* with the first envelope, no backend touched
C11_Witness ==
    /\ pc = "done"
    /\ Len(hist) = 2
    /\ SameAsGiven(hist[1].req, hist[1].biz_dt, hist[2].req, hist[2].biz_dt)
    /\ IsSuccess(hist[1].resp)
    /\ hist[2].resp = hist[1].resp
    /\ hist[2].stored = hist[1].stored
    /\ db = 2
    /\ calls = {}

----------------------------------------------------------------------------
\* C12: when the lookup of the query's product_id finds a catalog row, the
\* request leaves the resolve stage with that row's stored text fields as its
\* parsed fields, the rerank query text built from them, one route pending
\* per field of the row with a non-blank normalised text, and the extractor
\* not called; a product_id present in a catalog snapshot held in the cache is
\* always found; and the extractor stays uncalled for the rest of the request.
CatalogInForce == IF DfLive THEN Catalogs[df_cache[1].val] ELSE Catalogs[db]

C12_CatalogFieldsVerbatim ==
    [][ /\ (pc = "resolve" /\ pc' # "resolve") =>
             LET pid == Strip(StrOf(req.query.product_id))
             IN  /\ (DfLive /\ pid \in DOMAIN CatalogInForce) => loc'.effective_pid = pid
                 /\ loc'.effective_pid # None =>
                       /\ pid \in DOMAIN CatalogInForce
                       /\ loc'.effective_pid = pid
                       /\ pc' = "recall"
                       /\ loc'.parsed_fields = CatalogInForce[pid].fields
                       /\ loc'.rerank_query_text =
                             build_combined_text_from_fields_map(CatalogInForce[pid].fields)
                       /\ loc'.pending =
                             { f \in SeqToSet(TEXT_FIELDS) :
                                 Strip(normalize_field_text(f, CatalogInForce[pid].fields[f]))
                                    # <<>> }
                       /\ "field_extractor" \notin calls'
        /\ (loc.effective_pid # None /\ "field_extractor" \notin calls /\ ncalls' = ncalls)
              => "field_extractor" \notin calls' ]_vars

\* a request answered with products whose fields came from the catalog row,
\* with route searches made and the extractor never called
C12_Witness ==
    /\ pc = "done"
    /\ IsSuccess(resp)
    /\ loc.effective_pid = P1
    /\ loc.parsed_fields = Row1.fields
    /\ "index_query" \in calls
    /\ "field_extractor" \notin calls
    /\ RespProductList # <<>>

----------------------------------------------------------------------------
\* C13: after assembly, a fused product id that is in the catalog and is not
\* the query's own product is a candidate exactly when its trimmed company
\* passes the company allow-list, its trimmed channel passes the channel
\* allow-list, and its combined text is not blank; an allow-list passes a
\* value when it is empty or holds the value.  In every SUCCESS envelope, a
\* non-empty effective allow-list holds the company (channel) of every item.
Passes(selected, value) == selected = <<>> \/ \E k \in 1..Len(selected) : selected[k] = value

\* the product ids the routes returned
FusedPids ==
    UNION { { loc.route_results[k].cands[m].product_id :
                m \in 1..Len(loc.route_results[k].cands) } :
            k \in 1..Len(loc.route_results) }

\* The request has been through assembly; the catalog cache then holds the
\* snapshot the assembly read
Assembled ==
    \/ pc = "rerank"
    \/ Reranked
    \/ (pc = "done" /\ loc.route_results # <<>> /\ EmptySuccess(resp))

AssemblyCatalog == Catalogs[df_cache[1].val]

C13_AllowListsFilter ==
    /\ Assembled =>
          \A pid \in FusedPids :
             (pid \in DOMAIN AssemblyCatalog /\ pid # loc.effective_pid) =>
                ( (\E k \in 1..Len(loc.candidate_items) :
                      loc.candidate_items[k].product_id = pid)
                  <=> ( /\ Passes(loc.selected_company, Strip(AssemblyCatalog[pid].company))
                        /\ Passes(loc.selected_channel, Strip(AssemblyCatalog[pid].channel))
                        /\ Strip(build_combined_text_from_fields_map(
                                    AssemblyCatalog[pid].fields)) # <<>> ) )
    /\ \A i \in 1..Len(hist) :
          IsSuccess(hist[i].resp) =>
             \A c \in SeqToSet(hist[i].resp.env[1].detail.candidates) :
                /\ Passes(EffectiveCompany(hist[i].req), c.company)
                /\ Passes(EffectiveChannel(hist[i].req), c.channel)

\* a company allow-list kept two products (one stored with a trailing blank)
\* and dropped a third that the routes had returned
C13_Witness ==
    /\ Reranked
    /\ loc.selected_company # <<>>
    /\ Len(RespCandidates) >= 2
    /\ \E c \in SeqToSet(RespCandidates) :
          AssemblyCatalog[c.product_id].company # c.company
    /\ \E pid \in FusedPids :
          /\ pid \in DOMAIN AssemblyCatalog
          /\ ~Passes(loc.selected_company, Strip(AssemblyCatalog[pid].company))

----------------------------------------------------------------------------
\* Rank fusion, stated on the input and the output of one call

\* The 1-based place of cand_list[i] once the list is in descending raw score,
\* equal scores in the order given
RankAt(cand_list, i) ==
    1 + Cardinality({ j \in 1..Len(cand_list) :
                        \/ cand_list[j].score > cand_list[i].score
                        \/ cand_list[j].score = cand_list[i].score /\ j < i })

\* Every occurrence of a product id in the route results, with its rank
OccurrencesOf(route_results, pid) ==
    { [route |-> route_results[k].route,
       rank |-> RankAt(route_results[k].cands, i),
       score_raw |-> route_results[k].cands[i].score] :
        <<k, i>> \in { x \in (1..Len(route_results)) \X (1..MaxFuseHits) :
                         /\ x[2] <= Len(route_results[x[1]].cands)
                         /\ route_results[x[1]].cands[x[2]].product_id = pid } }

RoutesOf(route_results, pid) == { o.route : o \in OccurrencesOf(route_results, pid) }

RanksIn(route_results, pid, route) ==
    { o.rank : o \in { x \in OccurrencesOf(route_results, pid) : x.route = route } }

InputPids(route_results) ==
    UNION { { route_results[k].cands[i].product_id : i \in 1..Len(route_results[k].cands) } :
            k \in 1..Len(route_results) }

\* sum of 1 / (60 + rank) over a set of occurrences, in units of 1 / RRF_DEN
RECURSIVE SumOfReciprocals(_)
SumOfReciprocals(occs) ==
    IF occs = {} THEN 0
    ELSE LET o == CHOOSE x \in occs : TRUE
         IN  (RRF_DEN \div (RRF_K + o.rank)) + SumOfReciprocals(occs \ {o})

FusedEntries(pid) ==
    { i \in 1..Len(loc.fused_scores) : loc.fused_scores[i].product_id = pid }

FusedScoreOf(pid) == loc.fused_scores[CHOOSE i \in FusedEntries(pid) : TRUE].score

\* A ranks at or before B wherever B appears, and appears in more routes
Dominates(route_results, a, b) ==
    /\ RoutesOf(route_results, b) \subseteq RoutesOf(route_results, a)
    /\ RoutesOf(route_results, b) # RoutesOf(route_results, a)
    /\ \A route \in RoutesOf(route_results, b) :
          \A ra \in RanksIn(route_results, a, route), rb \in RanksIn(route_results, b, route) :
             ra <= rb

NoRepeats(route_results, pid) ==
    \A route \in RoutesOf(route_results, pid) :
       Cardinality(RanksIn(route_results, pid, route)) = 1

\* C14: RRF monotonicity: for any two products A and B of the route results,
\* if A appears in a strict superset of B's routes and ranks at or before B in
\* every route B appears in, A's fused score is at least B's.
C14_RrfMonotone ==
    pc = "fused" =>
       \A a \in InputPids(loc.route_results), b \in InputPids(loc.route_results) :
          Dominates(loc.route_results, a, b) => FusedScoreOf(a) >= FusedScoreOf(b)

\* What does hold: the same with each of the two products at most once in a route
RrfMonotoneWithoutRepeats ==
    pc = "fused" =>
       \A a \in InputPids(loc.route_results), b \in InputPids(loc.route_results) :
          /\ Dominates(loc.route_results, a, b)
          /\ NoRepeats(loc.route_results, a)
          /\ NoRepeats(loc.route_results, b)
          => FusedScoreOf(a) > FusedScoreOf(b)

\* C15: each product id gets the sum, over every occurrence of the id in every
\* route, of 1 / (60 + rank), rank being the 1-based place of the occurrence in
\* the route's list in descending raw score (equal scores in the order given);
\* its detail has one {route, rank, score_raw} record per occurrence.
C15_ScoreIsSumOverOccurrences ==
    pc = "fused" =>
       /\ \A pid \in InputPids(loc.route_results) : Cardinality(FusedEntries(pid)) = 1
       /\ \A i \in 1..Len(loc.fused_scores) :
             LET e == loc.fused_scores[i]
                 occs == OccurrencesOf(loc.route_results, e.product_id)
             IN  /\ occs # {}
                 /\ e.score = SumOfReciprocals(occs)
                 /\ Len(e.routes) = Cardinality(occs)
                 /\ { e.routes[n] : n \in 1..Len(e.routes) } = occs

\* a product twice in one route and once in another, in a route whose sort
\* moves a candidate forward and keeps two equal scores in the order given
C15_Witness ==
    /\ pc = "fused"
    /\ Len(loc.route_results) = 2
    /\ \E i \in 1..Len(loc.fused_scores) :
          /\ Len(loc.fused_scores[i].routes) = 3
          /\ Cardinality(RoutesOf(loc.route_results, loc.fused_scores[i].product_id)) = 2
    /\ \E k \in 1..2 :
          LET c == loc.route_results[k].cands
          IN  /\ Len(c) = 3
              /\ c[1].score = 1 /\ c[2].score = 1 /\ c[3].score = 2
              /\ c[1].product_id # c[2].product_id

----------------------------------------------------------------------------
\* Freshness that could not be read

\* The resolution this call used did not find a build time
FellBack == loc.biz_warnings # <<>>

\* the fallback value is the wall clock of the moment of the read
FallbackIsWallClock ==
    \A i \in 1..Len(meta_cache) :
       meta_cache[i].val[2] # <<>> => meta_cache[i].val[1] = meta_cache[i].at

\* the call goes on: what it returns has the resolved biz_dt, and a failure is
\* one of validation or of the pipeline, never the freshness read's
FallbackDoesNotFail ==
    pc = "done" /\ FellBack /\ resp.kind = "returned" =>
       /\ resp.env[1].content.biz_dt = loc.biz_dt
       /\ IsFail(resp) =>
             /\ resp.env[1].failCause \notin
                   {<<"meta_read_failed">>, <<"meta_doc_not_found">>, <<"meta_missing_ingest_dt">>}
             /\ \/ ValidationFailure(req.query, 1) # <<>>
                \/ "error" \in DOMAIN resp.env[1].detail

FallbackIsFlagged ==
    pc = "done" /\ FellBack /\ resp.kind = "returned" =>
       resp.env[1].content.warnings = loc.biz_warnings

\* C16: when the build marker is missing, lacks ingest_dt or cannot be read, the
\* search still runs validation and the pipeline, biz_dt is the wall-clock time
\* of the resolution, and the returned envelope carries the warning of the
\* failed read.
C16_FreshnessNeverBlocks ==
    /\ FallbackIsWallClock
    /\ FallbackDoesNotFail
    /\ FallbackIsFlagged

----------------------------------------------------------------------------
\* The query names a product the catalog does not hold
UnknownProductId == loc.q0.product_id # None /\ loc.q0.product_id \notin DOMAIN CatalogInForce

\* C17: an unknown product_id is not fatal: the step that leaves the lookup
\* calls the field extractor; when the extractor answers, the pipeline goes on
\* to recall with the extractor's fields, the rerank text and the routes built
\* from them and no own product (nothing is self-excluded, for the rest of the
\* request); the request fails at this step only with the extractor's own
\* exception.
C17_UnknownProductIdNotFatal ==
    [][ /\ (pc = "resolve" /\ pc' # "resolve" /\ UnknownProductId) =>
             /\ "field_extractor" \in calls'
             /\ pc' \in {"recall", "done"}
             /\ pc' = "recall" =>
                   /\ loc'.effective_pid = None
                   /\ loc'.parsed_fields \in ParsedChoices
                   /\ loc'.rerank_query_text =
                         build_combined_text_from_fields_map(loc'.parsed_fields)
                   /\ loc'.pending =
                         { f \in SeqToSet(TEXT_FIELDS) :
                             Strip(normalize_field_text(f, loc'.parsed_fields[f])) # <<>> }
             /\ pc' = "done" =>
                   /\ IsFail(resp')
                   /\ "error" \in DOMAIN resp'.env[1].detail
                   /\ resp'.env[1].detail.error \in ExcMsgs
        /\ (pc \in {"recall", "rerank"} /\ loc.effective_pid = None) =>
              loc'.effective_pid = None ]_vars

\* a request for a product id the catalog lacks, answered with candidates found
\* through the extractor's fields
C17_Witness ==
    /\ pc = "done"
    /\ IsSuccess(resp)
    /\ RespProductList # <<>>
    /\ "field_extractor" \in calls
    /\ "catalog_load" \in calls
    /\ loc.q0.product_id = PZ
    /\ df_cache # <<>>
    /\ PZ \notin DOMAIN AssemblyCatalog
    /\ loc.effective_pid = None

----------------------------------------------------------------------------
\* The text fields whose normalised query text is not blank
DispatchedFields(l) ==
    { f \in SeqToSet(TEXT_FIELDS) : Strip(normalize_field_text(f, l.parsed_fields[f])) # <<>> }

\* The dispatched fields whose search has returned a non-empty list
Arrived ==
    { f \in DispatchedFields(loc) : \E e \in MemoOf(dv_result_cache, f) : e.val # <<>> }

\* C18: recall starts with one pending route per text field whose normalised
\* text is not blank and nothing collected; the request leaves recall (for
\* fusion, or to answer that nothing was found) only when no route is pending,
\* and the route results then handed to fusion are exactly the lists of the
\* dispatched routes that returned a non-empty one, each under its route name,
\* once, whatever the order in which the routes completed.
C18_FusionAfterAllRoutes ==
    [][ /\ (pc = "resolve" /\ pc' = "recall") =>
             /\ loc'.pending = DispatchedFields(loc')
             /\ loc'.route_results = <<>>
        /\ (pc = "recall" /\ pc' # "recall") =>
             /\ loc.pending = {}
             /\ Len(loc.route_results) = Cardinality(Arrived)
             /\ \A f \in Arrived :
                   \E k \in 1..Len(loc.route_results), e \in MemoOf(dv_result_cache, f) :
                      loc.route_results[k] = [route |-> RouteName(f), cands |-> e.val]
             /\ pc' = "rerank" =>
                   \A k \in 1..Len(loc'.candidate_items) :
                      \E n \in 1..Len(loc.route_results) :
                         \E m \in 1..Len(loc.route_results[n].cands) :
                            loc.route_results[n].cands[m].product_id
                               = loc'.candidate_items[k].product_id ]_vars

\* two routes were dispatched, the later field's route completed first, and
\* fusion ran on both lists
C18_Witness ==
    /\ pc = "rerank"
    /\ loc.pending = {}
    /\ Len(loc.route_results) = 2
    /\ loc.route_results[1].route = RouteName("summary_coverage")
    /\ loc.route_results[2].route = RouteName("labels")
    /\ \E k \in 1..Len(loc.candidate_items) :
          \A m \in 1..Len(loc.route_results[1].cands) :
             loc.route_results[1].cands[m].product_id # loc.candidate_items[k].product_id

----------------------------------------------------------------------------
\* The route memo, stated on the arguments of the searches

\* the same field, track, text and top_k, and the same allow-lists once sorted
SameKeyParts(a, b) ==
    /\ a.field = b.field /\ a.track = b.track
    /\ a.query_text = b.query_text /\ a.top_k = b.top_k
    /\ SortedTexts(a.selected_company) = SortedTexts(b.selected_company)
    /\ SortedTexts(a.selected_channel) = SortedTexts(b.selected_channel)

\* the same field, track, text and top_k, and the same allow-list sets
SameArgumentSets(a, b) ==
    /\ a.field = b.field /\ a.track = b.track
    /\ a.query_text = b.query_text /\ a.top_k = b.top_k
    /\ SeqToSet(a.selected_company) = SeqToSet(b.selected_company)
    /\ SeqToSet(a.selected_channel) = SeqToSet(b.selected_channel)

\* a search whose key parts equal those of a search that has returned gets
\* that search's list, touches no backend and leaves the memo as it is
MemoServesSameKeyStep ==
    /\ dv_result_cache \subseteq dv_result_cache'
    /\ pc = "recall" =>
          \A f \in loc.pending \ loc'.pending :
             \A e \in dv_result_cache :
                SameKeyParts(e.args, FieldRouteArgs(f)) =>
                   /\ dv_result_cache' = dv_result_cache
                   /\ calls' = calls
                   /\ loc'.route_results =
                         IF e.val = <<>> THEN loc.route_results
                         ELSE Append(loc.route_results,
                                     [route |-> RouteName(f), cands |-> e.val])

\* a search that is answered from the memo has the arguments of the search
\* that stored the entry
MemoOnlyToSameArgumentsStep ==
    pc = "recall" =>
       \A f \in loc.pending \ loc'.pending :
          \A e \in MemoOf(dv_result_cache, f) : SameArgumentSets(e.args, FieldRouteArgs(f))

RouteMemoServesSameKey == [][MemoServesSameKeyStep]_vars

\* C19: route results are memoized for the life of the process per (field,
\* track, query_text, top_k, sorted company filter, sorted channel filter): a
\* later search with the same key parts, the allow-lists in any order, gets the
\* same list without a backend call, and a memoized list goes only to a search
\* with the same field, track, text, top_k and allow-list sets as the search
\* that stored it.
C19_RouteMemoPerExactKey ==
    [][MemoServesSameKeyStep /\ MemoOnlyToSameArgumentsStep]_vars

----------------------------------------------------------------------------
\* Writes to a key whose entry is still in its lifetime

MetaWriteSameValue ==
    (MetaLive /\ meta_cache' # meta_cache) => meta_cache'[1].val = meta_cache[1].val

DfWriteSameValue ==
    (DfLive /\ df_cache' # df_cache) => df_cache'[1].val = df_cache[1].val

MemoWriteSameValue ==
    \A e \in dv_result_cache, w \in dv_result_cache' : w.key = e.key => w.val = e.val

ResponseWriteSameValue ==
    \A e \in search_cache, w \in search_cache' :
       (Live(e, SEARCH_TTL) /\ w.key = e.key) => w.val = e.val

FreshnessCacheIdempotent == [][MetaWriteSameValue]_vars
CatalogCacheIdempotent == [][DfWriteSameValue]_vars
RouteMemoIdempotent == [][MemoWriteSameValue]_vars
ResponseCacheIdempotent == [][ResponseWriteSameValue]_vars

\* C20: in every interleaving of concurrent requests, index builds and catalog
\* rewrites, a write to the freshness cache, the catalog cache, the route memo
\* or the response cache under a key whose entry is still in its lifetime
\* stores the value the entry already has.
C20_CacheWritesIdempotent ==
    [][ /\ MetaWriteSameValue
        /\ DfWriteSameValue
        /\ MemoWriteSameValue
        /\ ResponseWriteSameValue ]_vars

----------------------------------------------------------------------------
\* C21: within one search_competitors call every catalog read observes the
\* same catalog snapshot: when the lookup of the query's product_id found its
\* row, the assembly of the same call reads the snapshot the lookup read (the
\* one the catalog cache held when the lookup returned), also when the cache
\* entry expires while the call is in flight.
AssemblyReads ==
    /\ pc = "recall"
    /\ pc' # "recall"
    /\ loc.route_results # <<>>
    /\ df_cache' # <<>>
    /\ (pc' = "done" => IsSuccess(resp'))

C21_OneCatalogSnapshotPerCall ==
    [][ (AssemblyReads /\ loc.effective_pid # None) =>
           /\ df_cache'[1].val = df_cache[1].val
           /\ loc.effective_pid \in DOMAIN Catalogs[df_cache'[1].val] ]_vars

----------------------------------------------------------------------------
\* C22: the candidate list one route search returns holds each product id at
\* most once, whatever documents the index returned; the lists are read off
\* the route memo, which stores every list _dashvector_search returned.
OncePerProduct(cand_list) ==
    \A i, j \in 1..Len(cand_list) :
        cand_list[i].product_id = cand_list[j].product_id => i = j

C22_RouteListDeduplicated ==
    \A e \in dv_result_cache : OncePerProduct(e.val)

----------------------------------------------------------------------------
\* C23: the assembled list holds at most limit candidates (limit standing for
\* MAX_CANDIDATES_FOR_RERANK), its rrf_score is non-increasing, and it is
\* exactly the first up to limit fused ids that pass every skip rule (not the
\* query's own product, present in the catalog, allowed company and channel,
\* non-blank combined text), each with the fused entry's score: a skipped id
\* does not count toward the cap.
PassesSkipRules(k) ==
    LET pid == loc.fused_scores[k].product_id
    IN  /\ (loc.effective_pid = None \/ pid # loc.effective_pid)
        /\ pid \in DOMAIN Catalogs[db]
        /\ Passes(loc.selected_company, Strip(Catalogs[db][pid].company))
        /\ Passes(loc.selected_channel, Strip(Catalogs[db][pid].channel))
        /\ Strip(build_combined_text_from_fields_map(Catalogs[db][pid].fields)) # <<>>

PassingPositions == { k \in 1..Len(loc.fused_scores) : PassesSkipRules(k) }

\* the i-th passing position of the fused list
NthPassing(i) ==
    CHOOSE k \in PassingPositions : Cardinality({ m \in PassingPositions : m <= k }) = i

C23_AssemblyTakesFirstPassing ==
    pc = "assembled" =>
       /\ Len(loc.candidate_items) <= loc.limit
       /\ Len(loc.candidate_items) =
             (IF Cardinality(PassingPositions) < loc.limit
              THEN Cardinality(PassingPositions) ELSE loc.limit)
       /\ \A i \in 1..Len(loc.candidate_items) :
             /\ loc.candidate_items[i].product_id = loc.fused_scores[NthPassing(i)].product_id
             /\ loc.candidate_items[i].rrf_score = loc.fused_scores[NthPassing(i)].score
       /\ \A i \in 1..(Len(loc.candidate_items) - 1) :
             loc.candidate_items[i].rrf_score >= loc.candidate_items[i + 1].rrf_score

\* the cap cut the list short: a passing id was left out, after an id missing
\* from the catalog and an id with a blank text had been skipped before the
\* last candidate taken
C23_Witness ==
    /\ pc = "assembled"
    /\ Len(loc.candidate_items) = loc.limit
    /\ Cardinality(PassingPositions) > loc.limit
    /\ \E k \in 1..NthPassing(loc.limit) :
          loc.fused_scores[k].product_id \notin DOMAIN Catalogs[db]
    /\ \E k \in 1..NthPassing(loc.limit) :
          /\ loc.fused_scores[k].product_id \in DOMAIN Catalogs[db]
          /\ Strip(build_combined_text_from_fields_map(
                      Catalogs[db][loc.fused_scores[k].product_id].fields)) = <<>>

----------------------------------------------------------------------------
\* C24: a FAIL envelope produced by a validation failure leaves the response
\* cache as it was; every envelope with which a pipeline run ends, SUCCESS
\* (empty or not) or FAIL after an exception, is stored under the request's
\* key at that moment; and a request that agrees with an earlier one that
\* failed in the pipeline (same values as given, same filters, threshold,
\* max_results and biz_dt), within the TTL of that failure, is answered with
\* the very same FAIL envelope, not a recomputed one.
PipelineFailure(out) == IsFail(out) /\ "error" \in DOMAIN out.env[1].detail

CallEnds == Len(hist') = Len(hist) + 1

ValidationFailNotStored ==
    [][ (CallEnds /\ resp'.kind = "returned" /\ MissingRequired(req'.query)) =>
           /\ IsFail(resp')
           /\ search_cache' = search_cache ]_vars

PipelineOutcomeStored ==
    [][ (CallEnds /\ pc \notin {"idle", "done"}) =>
           /\ resp'.kind = "returned"
           /\ (IsSuccess(resp') \/ PipelineFailure(resp'))
           /\ \E e \in search_cache' :
                 /\ e.key = loc'.cache_key
                 /\ e.val = resp'.env[1]
                 /\ e.at = now
           /\ \A e \in search_cache' : e.key = loc'.cache_key => e.val = resp'.env[1] ]_vars

StoredFailureServedAgain ==
    \A i, j \in 1..Len(hist) :
       ( /\ i < j
         /\ PipelineFailure(hist[i].resp)
         /\ hist[j].resp.kind = "returned"
         /\ SameAsGiven(hist[i].req, hist[i].biz_dt, hist[j].req, hist[j].biz_dt)
         /\ hist[j].at < hist[i].stored + SEARCH_TTL )
          => /\ hist[j].resp = hist[i].resp
             /\ hist[j].stored = hist[i].stored

C24_WhatEntersResponseCache ==
    /\ ValidationFailNotStored
    /\ PipelineOutcomeStored
    /\ []StoredFailureServedAgain

\* a request failed in the pipeline; the same request came again within the
\* TTL and got the stored FAIL envelope, no pipeline backend touched
C24_Witness ==
    /\ pc = "done"
    /\ Len(hist) = 2
    /\ PipelineFailure(hist[1].resp)
    /\ hist[2].req = hist[1].req
    /\ hist[2].resp = hist[1].resp
    /\ hist[2].stored = hist[1].stored
    /\ hist[2].at > hist[1].at
    /\ calls \cap {"field_extractor", "catalog_load", "sparse_encoder", "rerank"} = {}

----------------------------------------------------------------------------
\* C25: the candidates a request assembles (and with them the envelope) do
\* not depend on the order in which its route searches completed: had the
\* same route results arrived in any other order, fusion and assembly over
\* the same catalog snapshot would have given the same product ids in the
\* same order.
ArrivalOrders ==
    { [i \in 1..Len(loc.route_results) |-> loc.route_results[p[i]]] :
        p \in Permutations(1..Len(loc.route_results)) }

AssembledFrom(route_results) ==
    Assemble(MAX_CANDIDATES_FOR_RERANK, FuseWithRrf(route_results), AssemblyCatalog,
             loc.selected_company, loc.selected_channel, loc.effective_pid, <<>>)

C25_CompletionOrderIrrelevant ==
    pc = "rerank" =>
       \A other \in ArrivalOrders :
          ProductIds(AssembledFrom(other)) = ProductIds(loc.candidate_items)

----------------------------------------------------------------------------
\* C26: a route search that raises leaves the route memo unchanged, and the
\* next search with the same key goes to the index again; the memo holds, for
\* each key, exactly the list the first search that returned for that key gave
\* back (an empty list included), and nothing for a key no search returned for.
SearchEnds == Len(hist') = Len(hist) + 1

FailedSearchNotMemoized ==
    [][ (SearchEnds /\ resp'.kind = "raised") => dv_result_cache' = dv_result_cache ]_vars

\* call j is the first search with call i's key after call i
NextWithSameKey(i, j) ==
    /\ i < j
    /\ hist[j].key = hist[i].key
    /\ \A m \in (i + 1)..(j - 1) : hist[m].key # hist[i].key

RetryAsksTheIndex ==
    \A i, j \in 1..Len(hist) :
       (hist[i].out.kind = "raised" /\ NextWithSameKey(i, j)) =>
          "index_query" \in hist[j].touched

OnlyReturnedListsMemoized ==
    /\ \A e \in dv_result_cache :
          \E i \in 1..Len(hist) :
             /\ hist[i].key = e.key
             /\ hist[i].out.kind = "returned"
             /\ hist[i].out.env[1] = e.val
    /\ \A i \in 1..Len(hist) :
          hist[i].out.kind = "returned" =>
             \E e \in dv_result_cache : e.key = hist[i].key /\ e.val = hist[i].out.env[1]

C26_FailedRouteNotMemoized ==
    /\ FailedSearchNotMemoized
    /\ [](pc = "memo" => RetryAsksTheIndex /\ OnlyReturnedListsMemoized)

\* a search raised, the next one with the same key asked the index and got
\* candidates, and a third was served them from the memo
C26_Witness ==
    /\ pc = "memo"
    /\ Len(hist) = 3
    /\ hist[1].out.kind = "raised"
    /\ NextWithSameKey(1, 2)
    /\ hist[2].out.kind = "returned"
    /\ hist[2].out.env[1] # <<>>
    /\ hist[3].key = hist[1].key
    /\ hist[3].touched = {}
    /\ hist[3].out = hist[2].out

----------------------------------------------------------------------------
\* C27: every envelope a call returned, on every path, has status SUCCESS or
\* FAIL and carries as content.biz_dt the freshness value resolved for that
\* call; a FAIL envelope has an empty product_list, no candidates and a
\* non-empty failCause; a SUCCESS envelope has an empty failCause and a
\* product_list that names its candidates, in their order.
WellFormed(e, biz_dt) ==
    /\ e.status \in {"SUCCESS", "FAIL"}
    /\ e.content.biz_dt = biz_dt
    /\ e.status = "FAIL" =>
          /\ e.content.product_list = <<>>
          /\ e.detail.candidates = <<>>
          /\ e.failCause # <<>>
          /\ \E k \in 1..Len(e.failCause) : e.failCause[k] # ""
    /\ e.status = "SUCCESS" =>
          /\ e.failCause = <<>>
          /\ Len(e.content.product_list) = Len(e.detail.candidates)
          /\ \A k \in 1..Len(e.detail.candidates) :
                e.content.product_list[k] = e.detail.candidates[k].product_id

C27_EnvelopesWellFormed ==
    \A i \in 1..Len(hist) :
       hist[i].resp.kind = "returned" => WellFormed(hist[i].resp.env[1], hist[i].biz_dt)

\* an exception without a message answered with FAIL and the default cause,
\* then another request answered with products
C27_Witness ==
    /\ pc = "done"
    /\ Len(hist) = 2
    /\ PipelineFailure(hist[1].resp)
    /\ hist[1].resp.env[1].detail.error = <<"">>
    /\ hist[1].resp.env[1].failCause = <<"unknown_error">>
    /\ IsSuccess(hist[2].resp)
    /\ Len(hist[2].resp.env[1].content.product_list) = 2

----------------------------------------------------------------------------
\* C28: no product id occurs twice in the candidates a request assembled or
\* in the product_list of an envelope it returned, also when one route
\* returned the id several times or several routes returned it.
NoRepeatedId(ids) == \A i, j \in 1..Len(ids) : ids[i] = ids[j] => i = j

C28_ProductListHasNoDuplicates ==
    /\ pc = "rerank" =>
          NoRepeatedId([k \in 1..Len(loc.candidate_items) |->
                           loc.candidate_items[k].product_id])
    /\ \A i \in 1..Len(hist) :
          hist[i].resp.kind = "returned" =>
             NoRepeatedId(hist[i].resp.env[1].content.product_list)

\* a product that one route returned twice and another route returned as well
\* is in the product_list of the answer
C28_Witness ==
    /\ pc = "done"
    /\ IsSuccess(resp)
    /\ \E k, m \in 1..Len(loc.route_results) :
          /\ k # m
          /\ ~OncePerProduct(loc.route_results[k].cands)
          /\ \E a \in 1..Len(loc.route_results[k].cands), b \in 1..Len(loc.route_results[m].cands) :
                /\ loc.route_results[k].cands[a].product_id
                      = loc.route_results[m].cands[b].product_id
                /\ \E c \in 1..Len(loc.route_results[k].cands) :
                      /\ c # a
                      /\ loc.route_results[k].cands[c].product_id
                            = loc.route_results[k].cands[a].product_id
                /\ \E n \in 1..Len(RespProductList) :
                      RespProductList[n] = loc.route_results[k].cands[a].product_id

----------------------------------------------------------------------------
\* C29: in an index build the latest meta document is upserted only when
\* every product-field document of the build (one per row and field with a
\* text) has been upserted in a successful call, each exactly once, and all
\* earlier upserts of the build succeeded; a build in which an upsert failed
\* has raised and has left the latest meta document as it was; so the latest
\* meta document always names a build that completed.
ExpectedDocs(df) ==
    { d \in [product_id : DOMAIN Catalogs[df], field : SeqToSet(TEXT_FIELDS)] :
        Strip(normalize_field_text(d.field, Catalogs[df][d.product_id].fields[d.field]))
           # <<>> }

\* how often doc d was handed to a successful upsert call
TimesUpserted(sent, d) ==
    Cardinality(UNION { { <<c, k>> : k \in { m \in 1..Len(sent[c].docs) : sent[c].docs[m] = d } } :
                        c \in { n \in 1..Len(sent) : sent[n].ok } })

MetaAfterAllDocs ==
    [][ meta_doc' # meta_doc =>
           /\ \A d \in ExpectedDocs(loc.df) : TimesUpserted(loc.sent, d) = 1
           /\ \A c \in 1..Len(loc'.sent) : loc'.sent[c].ok
           /\ meta_doc'.ingest_dt = loc.ingest_dt
           /\ pc' = "completed" ]_vars

FailedUpsertRaises ==
    /\ (\E c \in 1..Len(loc.sent) : ~loc.sent[c].ok) => pc = "raised"
    /\ \A i \in 1..Len(hist) :
          (\E c \in 1..Len(hist[i].sent) : ~hist[i].sent[c].ok) =>
             /\ hist[i].outcome = "raised"
             /\ meta_doc.build_id # hist[i].build_id

RaisedBuildKeepsMarker == [][ pc' = "raised" => meta_doc' = meta_doc ]_vars

MarkerNamesCompletedBuild ==
    meta_doc.present =>
       \E i \in 1..Len(hist) :
          /\ hist[i].outcome = "completed"
          /\ hist[i].build_id = meta_doc.build_id
          /\ hist[i].ingest_dt = meta_doc.ingest_dt

C29_MetaAfterAllDocuments ==
    /\ MetaAfterAllDocs
    /\ RaisedBuildKeepsMarker
    /\ [](pc \in {"idle", "scan", "meta", "completed", "raised"} =>
             FailedUpsertRaises /\ MarkerNamesCompletedBuild)

\* a build completed with its documents sent in more than one upsert call;
\* the next build failed in an upsert, and the marker still names the first
C29_Witness ==
    /\ pc = "raised"
    /\ Len(hist) = 2
    /\ hist[1].outcome = "completed"
    /\ Len(hist[1].sent) >= 3
    /\ \E c \in 1..Len(hist[2].sent) : ~hist[2].sent[c].ok
    /\ Len(hist[2].sent) >= 2
    /\ meta_doc.build_id = hist[1].build_id
    /\ hist[2].ingest_dt > hist[1].ingest_dt

----------------------------------------------------------------------------
\* C30.  Build task lifecycle.  A task created by start_pipeline_task starts
\* with status 'running' and its status changes at most once, to 'success' or
\* to 'fail'; the index job starts only after the parse job returned without
\* exception; 'success' is set only after both jobs returned without
\* exception; 'fail' records the exception message; finished_at is set exactly
\* when the status is no longer 'running'; a task running at the same time
\* never changes another task's record.

\* a new record says 'running'
TaskStartsRunning ==
    \A t \in (Len(loc) + 1)..Len(loc') : loc'[t].task_status = "running"

\* the status leaves 'running' only, for 'success' or 'fail'
StatusChangesAtMostOnce ==
    \A t \in 1..Len(loc) :
        loc'[t].task_status # loc[t].task_status
            => /\ loc[t].task_status = "running"
               /\ loc'[t].task_status \in {"success", "fail"}

\* what the thread did before it started the index job
BeforeIndexJob(log) ==
    SubSeq(log, 1, (CHOOSE i \in 1..Len(log) : log[i].ev = "index_start") - 1)

IndexJobAfterParseJob ==
    \A t \in 1..Len(resp') :
        TaskDid(resp'[t], "index_start")
            => /\ TaskDid(BeforeIndexJob(resp'[t]), "parse_ok")
               /\ ~TaskDid(resp'[t], "parse_exc")

SuccessAfterBothJobs ==
    \A t \in 1..Len(loc') :
        loc'[t].task_status = "success"
            => /\ TaskDid(resp'[t], "parse_ok")
               /\ TaskDid(resp'[t], "index_ok")
               /\ ~TaskDid(resp'[t], "parse_exc")
               /\ ~TaskDid(resp'[t], "index_exc")

\* a record changes in steps of its own thread only
OwnRecordOnly ==
    \A t \in 1..Len(loc) : loc'[t] # loc[t] => pc'[t] # pc[t]

\* the message of the exception the thread of task t caught
CaughtMessages(t) ==
    { resp[t][i].msg : i \in { j \in 1..Len(resp[t]) :
                                 resp[t][j].ev \in {"parse_exc", "index_exc"} } }

\* a record as the claim has it
RecordConsistent(task) ==
    /\ (task.finished_at # NoDt) <=> (task.task_status # "running")
    /\ task.task_status = "fail" => task.error \in CaughtMessages(task.task_id)
    /\ task.task_status # "fail" => task.error = None

\* every record get_task_status has returned
TaskReadsConsistent ==
    \A i \in 1..Len(hist) :
        hist[i].status = "SUCCESS" => RecordConsistent(hist[i].content[1])

\* the records at the moments nobody holds _TASK_LOCK
TaskRecordsConsistentUnlocked ==
    calls = {} => \A t \in 1..Len(loc) : RecordConsistent(loc[t])

TaskLifecycleSteps ==
    [][/\ TaskStartsRunning
       /\ StatusChangesAtMostOnce
       /\ IndexJobAfterParseJob
       /\ SuccessAfterBothJobs
       /\ OwnRecordOnly]_vars

C30_BuildTaskLifecycle == TaskLifecycleSteps /\ []TaskReadsConsistent

----------------------------------------------------------------------------
\* C31: for a scalar text field normalize_field_text returns the empty string
\* for an empty or missing value and otherwise the string-cast value with
\* leading and trailing whitespace removed; so a whitespace-only value
\* contributes nothing to the combined text and dispatches no route.

\* the scalar field's value in the field map that was normalised
ScalarGiven == loc.parsed_fields[NormScalarField]

ScalarEmptyOrMissing == ScalarGiven.k = "nan" \/ ScalarGiven.s = <<>>

ScalarWhitespaceOnly == ScalarGiven.k = "str" /\ ScalarGiven.s # <<>> /\ Strip(ScalarGiven.s) = <<>>

\* the combined text of the same field map with the scalar field left empty
CombinedWithoutScalar ==
    build_combined_text_from_fields_map(
        [loc.parsed_fields EXCEPT ![NormScalarField] = TextVal(<<>>)])

ScalarNormalizedTrimmed ==
    loc.normalized_query_fields[NormScalarField] =
        (IF ScalarEmptyOrMissing THEN <<>> ELSE Strip(ScalarGiven.s))

WhitespaceOnlyContributesNothing ==
    ScalarWhitespaceOnly
        => /\ loc.rerank_query_text = CombinedWithoutScalar
           /\ NormScalarField \notin loc.pending

C31_ScalarFieldTrimmed ==
    pc = "normalized" => ScalarNormalizedTrimmed /\ WhitespaceOnlyContributesNothing

----------------------------------------------------------------------------
\* C32: for a list-typed field normalisation parses the textual list by trying,
\* in this order, a JSON array, a literal list and a bracket/quote-stripped
\* comma split, and returns the elements joined with one space ('a,b' becomes
\* 'a b'); only when every parser fails does it return the trimmed raw string.

\* the list-typed field's value in the field map that was normalised
ListGiven == loc.parsed_fields[NormListField]

\* the text the three parsers tried in that order give for a trimmed text s
ThreeParsersText(s) ==
    IF JsonLoadsList(s).ok THEN Join(JsonLoadsList(s).xs, <<SP>>)
    ELSE IF LiteralEvalList(s).ok THEN Join(LiteralEvalList(s).xs, <<SP>>)
    ELSE IF CommaSplit(s) # <<>> THEN Join(CommaSplit(s), <<SP>>)
    ELSE s

C32_ListFieldParsersInOrder ==
    pc = "normalized" /\ ListGiven.k = "str"
        => loc.normalized_query_fields[NormListField] = ThreeParsersText(Strip(ListGiven.s))

----------------------------------------------------------------------------
\* C33: round trip of document identifiers.  The product id a route search
\* derives from '<product_id>#<field>' as written at ingestion, when the hit
\* carries no product_id field, is the product id that was written, also for
\* product ids that contain '#'.

DerivedIds == [i \in 1..Len(loc.results) |-> loc.results[i].product_id]

C33_DocumentIdRoundTrip ==
    pc = "hit" => DerivedIds = <<loc.product_id>>

\* the same for product ids without '#'
RoundTripWithoutHash ==
    pc = "hit" /\ "#" \notin SeqToSet(loc.product_id) => DerivedIds = <<loc.product_id>>

============================================================================
